---- MODULE Spec2Model ----
(***************************************************************************)
(* SpeechWorks front end: the trial engine and handoff consumer of the     *)
(* ActivitiesController, the session lifecycle of the SessionsController,  *)
(* and the two $rootScope slots (pendingActivity, returnToSessionId) that  *)
(* connect them.  Every AngularJS callback ($timeout, $interval, $http     *)
(* response, ng-click) runs inside $apply, so a handler and the digest     *)
(* that follows it form one atomic step.                                   *)
(***************************************************************************)
EXTENDS Integers, Sequences, FiniteSets, Bags, TLC

VARIABLES root, act, tm, net, ses, store, hist

vars == <<root, act, tm, net, ses, store, hist>>

-----------------------------------------------------------------------------
(* Bounds of the model *)

MaxPublish == 2
MaxCatalogLoads == 2
MaxEvents == 1
MaxInFlight == 2
MaxFinishes == 2
MaxReloads == 1
MaxFailures == 1
MaxStatusOps == 1
NumWords == 2
\* the longest list whose shuffles are all enumerated
MaxShuffled == 4
MaxItems == 12

-----------------------------------------------------------------------------
(* Values *)

Null == 0
InitWatchVal == -1
Undefined == -1

MaxTrials == 10
SigBits == 53
RetryCount == 4

ActivityIds == {1, 2}
ClientIds == {1}
SessionIds == {1}
AssignmentIds == {1, 2}

CategoryOf(a) == IF a = 1 THEN "ARTICULATION" ELSE "LANGUAGE"
Categories == {"", "ARTICULATION", "LANGUAGE"}

Statuses == {"scheduled", "in_progress", "completed", "cancelled"}

Min(a, b) == IF a < b THEN a ELSE b

NoRequest == [id |-> Null, activity |-> Null, client |-> Null,
              session |-> Null, sessionActivityRecord |-> Null]

-----------------------------------------------------------------------------
(* Activity catalog *)

getSampleActivities(selectedCategory) ==
    IF selectedCategory # ""
    THEN {a \in ActivityIds : CategoryOf(a) = selectedCategory}
    ELSE ActivityIds

\* the word list of an activity: NumWords items, identified by position
getActivityWords(activity) == [i \in 1..NumWords |-> i]

-----------------------------------------------------------------------------
(* Trial engine: operators on the ActivitiesController scope record *)

\* the random draws of one shuffle: draws[i] is Math.floor(Math.random()*(i+1))
\* for the loop index i (0-based), i = length-1 down to 1
RandomDraws == [1..(NumWords - 1) -> 0..(NumWords - 1)]
ValidDraws == {d \in RandomDraws : \A i \in DOMAIN d : d[i] <= i}

\* the draws of a shuffle of words: all of them for a list of the catalog;
\* for a list of another length two outcomes, always i (every item stays in
\* place) and always 0 (every item is swapped with the first)
DrawsFor(words) ==
    IF Len(words) = NumWords THEN ValidDraws
    ELSE {[i \in 1..(Len(words) - 1) |-> i], [i \in 1..(Len(words) - 1) |-> 0]}

\* the one value of a singleton set: a handler's result, computed once
Value(S) == CHOOSE v \in S : TRUE

Swap(s, i, j) == [s EXCEPT ![i] = s[j], ![j] = s[i]]

RECURSIVE shuffleLoop(_, _, _)
shuffleLoop(words, i, draws) ==
    IF i > 0
    THEN shuffleLoop(Swap(words, i + 1, draws[i] + 1), i - 1, draws)
    ELSE words

\* a faulty shuffle: j is drawn below i, so no item can stay in place
shuffleWords_belowI(a, draws) ==
    [a EXCEPT !.activityWords =
        shuffleLoop(a.activityWords, Len(a.activityWords) - 1,
                    [i \in DOMAIN draws |-> Min(draws[i], i - 1)])]

shuffleWords(a, draws) ==
    [a EXCEPT !.activityWords = shuffleLoop(a.activityWords, Len(a.activityWords) - 1, draws)]

resetActivityState(a) ==
    [a EXCEPT !.currentWordIndex = 0, !.currentTrial = 0,
              !.trialsCorrect = 0, !.currentWord = Null]

\* a faulty prompt: the index is not advanced, the same item is shown again
nextWord_stay(a) ==
    IF a.currentWordIndex < Len(a.activityWords) /\ a.currentTrial < a.totalTrials
    THEN [a EXCEPT !.currentWord = a.activityWords[a.currentWordIndex + 1]]
    ELSE [a EXCEPT !.currentWord = Null]

nextWord(a) ==
    IF a.currentWordIndex < Len(a.activityWords) /\ a.currentTrial < a.totalTrials
    THEN [a EXCEPT !.currentWord = a.activityWords[a.currentWordIndex + 1],
                   !.currentWordIndex = a.currentWordIndex + 1]
    ELSE [a EXCEPT !.currentWord = Null]

\* a faulty start: the run is as long as the list
startActivity_noCap(a, draws) ==
    Value({nextWord(a2) :
              a2 \in {shuffleWords(a1, draws) :
                         a1 \in {[a EXCEPT !.totalTrials = Len(a.activityWords)]}}})

startActivity(a, draws) ==
    Value({nextWord(a2) :
              a2 \in {shuffleWords(a1, draws) :
                         a1 \in {[a EXCEPT !.totalTrials =
                                               Min(Len(a.activityWords), MaxTrials)]}}})

\* a faulty response: recorded whether or not the run is complete
recordResponse_noCap(a, isCorrect) ==
    LET a1 == [a EXCEPT !.currentTrial = a.currentTrial + 1,
                        !.trialsCorrect = IF isCorrect THEN a.trialsCorrect + 1
                                          ELSE a.trialsCorrect]
    IN  IF a1.currentTrial < a1.totalTrials
        THEN nextWord(a1)
        ELSE [a1 EXCEPT !.currentWord = Null]

\* a faulty response: a correct trial is counted twice
recordResponse_twice(a, isCorrect) ==
    IF a.currentTrial >= a.totalTrials
    THEN a
    ELSE LET a1 == [a EXCEPT !.currentTrial = a.currentTrial + 1,
                             !.trialsCorrect = IF isCorrect THEN a.trialsCorrect + 2
                                               ELSE a.trialsCorrect]
         IN  IF a1.currentTrial < a1.totalTrials
             THEN nextWord(a1)
             ELSE [a1 EXCEPT !.currentWord = Null]

\* a faulty response: every trial counts as correct
recordResponse_allCorrect(a, isCorrect) ==
    IF a.currentTrial >= a.totalTrials
    THEN a
    ELSE LET a1 == [a EXCEPT !.currentTrial = a.currentTrial + 1,
                             !.trialsCorrect = a.trialsCorrect + 1]
         IN  IF a1.currentTrial < a1.totalTrials
             THEN nextWord(a1)
             ELSE [a1 EXCEPT !.currentWord = Null]

recordResponse(a, isCorrect) ==
    IF a.currentTrial >= a.totalTrials
    THEN a
    ELSE LET a1 == [a EXCEPT !.currentTrial = a.currentTrial + 1,
                             !.trialsCorrect = IF isCorrect THEN a.trialsCorrect + 1
                                               ELSE a.trialsCorrect]
         IN  IF a1.currentTrial < a1.totalTrials
             THEN nextWord(a1)
             ELSE [a1 EXCEPT !.currentWord = Null]

\* what the call of recordResponse returns: `return;` on a complete run, the
\* end of the function body otherwise
recordResponseReturn(a, isCorrect) ==
    IF a.currentTrial >= a.totalTrials THEN Undefined ELSE Undefined

\* a faulty reset: the count of correct responses survives
resetActivity_keepCorrect(a, draws) ==
    startActivity([resetActivityState(a) EXCEPT !.trialsCorrect = a.trialsCorrect], draws)

resetActivity(a, draws) == startActivity(resetActivityState(a), draws)

selectActivity(a, activity) ==
    resetActivityState([a EXCEPT !.selectedActivity = activity,
                                 !.activityWords = getActivityWords(activity),
                                 !.activityClient = Null,
                                 !.showActivitySession = TRUE])

selectActivityClient(a, client, draws) ==
    startActivity(resetActivityState([a EXCEPT !.activityClient = client]), draws)

closeActivitySession(a) ==
    resetActivityState([a EXCEPT !.showActivitySession = FALSE,
                                 !.selectedActivity = Null,
                                 !.activityClient = Null,
                                 !.sourceSession = Null,
                                 !.sourceSessionActivityRecord = Null])

-----------------------------------------------------------------------------
(* The world: all variables as one record, so that a handler is a function *)
(* from world to world and the digest can be composed after it.            *)

World == [root |-> root, act |-> act, tm |-> tm, net |-> net,
          ses |-> ses, store |-> store, hist |-> hist]

\* Session objects that neither $scope.sessions nor a pending callback nor the
\* edit form refers to are garbage: they are dropped and the rest renumbered.
Referenced(w) ==
    {Len(w.ses.objs)} \cup {c.gen : c \in BagToSet(w.net.cards)}
        \cup {r.gen : r \in BagToSet(w.net.status)} \cup {w.ses.editingSession.gen}

Renumber(w, g) == Cardinality({h \in Referenced(w) : 1 <= h /\ h <= g})

RECURSIVE Keep(_, _, _)
Keep(objs, live, g) ==
    IF g > Len(objs) THEN << >>
    ELSE IF g \in live THEN <<objs[g]>> \o Keep(objs, live, g + 1)
    ELSE Keep(objs, live, g + 1)

RenumberBag(w, bag) ==
    LET elems == BagToSet(bag)
        moved(r) == [r EXCEPT !.gen = Renumber(w, r.gen)]
    IN  [m \in {moved(r) : r \in elems} |->
            CopiesIn(CHOOSE r \in elems : moved(r) = m, bag)]

Collect(w) ==
    IF \A g \in 1..Len(w.ses.objs) : g \in Referenced(w)
    THEN w
    ELSE [w EXCEPT !.ses.objs = Keep(w.ses.objs, Referenced(w), 1),
                   !.ses.editingSession.gen = Renumber(w, @),
                   !.net.cards = RenumberBag(w, @),
                   !.net.status = RenumberBag(w, @)]

Commit(w0) ==
    \E w \in {Collect(w1) : w1 \in {w0}} :
    /\ root' = w.root
    /\ act' = w.act
    /\ tm' = w.tm
    /\ net' = w.net
    /\ ses' = w.ses
    /\ store' = w.store
    /\ hist' = w.hist

\* ToastService.show: the notifications raised during the current step
Toast(w, kind) == [w EXCEPT !.hist.toasts = @ \cup {kind}]

\* start of a handler: names the operation, clears the per-step observations
Begin(w) == [w EXCEPT !.hist.toasts = {}]

Bump(n) == IF n < 2 THEN n + 1 ELSE n

\* the outcomes a response can have: failures are counted against MaxFailures
Outcomes == IF hist.failures < MaxFailures THEN BOOLEAN ELSE {TRUE}
Answered(w, ok) == IF ok THEN w ELSE [w EXCEPT !.hist.failures = @ + 1]

-----------------------------------------------------------------------------
(* Handoff consumer (ActivitiesController) *)

\* the engine part shared by both consumers: open the activity for the client
OpenFor(a, activity, client, session, sessionActivityRecord, draws) ==
    LET a1 == [a EXCEPT !.sourceSession = session,
                        !.sourceSessionActivityRecord = sessionActivityRecord,
                        !.selectedActivity = activity,
                        !.activityWords = getActivityWords(activity),
                        !.showActivitySession = TRUE]
    IN  Value({startActivity(a3, draws) :
                  a3 \in {[resetActivityState(a1) EXCEPT !.activityClient = client]}})

\* a faulty consumer: starts the engine but leaves the request in the slot
checkPendingActivity_keepSlot(w, draws) ==
    LET pending == w.root.pendingActivity IN
    IF pending.id # Null /\ w.act.activities # {}
       /\ pending.activity \in w.act.activities /\ pending.client # Null
    THEN Toast([w EXCEPT
            !.act = OpenFor(w.act, pending.activity, pending.client, pending.session,
                            pending.sessionActivityRecord, draws),
            !.hist.started[pending.id] = Bump(@)], "activityStarted")
    ELSE w

\* a faulty consumer: does not look the activity up in the catalog
checkPendingActivity_anyCatalog(w, draws) ==
    LET pending == w.root.pendingActivity IN
    IF pending.id # Null /\ w.act.activities # {} /\ pending.client # Null
    THEN Toast([w EXCEPT
            !.act = OpenFor(w.act, pending.activity, pending.client, pending.session,
                            pending.sessionActivityRecord, draws),
            !.root.pendingActivity = NoRequest,
            !.hist.started[pending.id] = Bump(@)], "activityStarted")
    ELSE w

\* checkPendingActivity() giving up a request it cannot open
checkPendingActivity_dropUnlisted(w, draws) ==
    LET pending == w.root.pendingActivity IN
    IF pending.id # Null /\ w.act.activities # {}
    THEN IF pending.activity \in w.act.activities /\ pending.client # Null
         THEN Toast([w EXCEPT
                 !.act = OpenFor(w.act, pending.activity, pending.client,
                                 pending.session, pending.sessionActivityRecord, draws),
                 !.root.pendingActivity = NoRequest,
                 !.hist.started[pending.id] = Bump(@)], "activityStarted")
         ELSE [w EXCEPT !.root.pendingActivity = NoRequest]
    ELSE w

\* a faulty consumer: on an empty mailbox it starts the run on screen again
checkPendingActivity_restart(w, draws) ==
    LET pending == w.root.pendingActivity IN
    IF pending.id # Null /\ w.act.activities # {}
    THEN IF pending.activity \in w.act.activities /\ pending.client # Null
         THEN Toast([w EXCEPT
                 !.act = OpenFor(w.act, pending.activity, pending.client,
                                 pending.session, pending.sessionActivityRecord, draws),
                 !.root.pendingActivity = NoRequest,
                 !.hist.started[pending.id] = Bump(@)], "activityStarted")
         ELSE w
    ELSE IF w.act.showActivitySession /\ w.act.activityClient # Null
         THEN [w EXCEPT !.act = resetActivity(@, draws)]
         ELSE w

\* a faulty consumer: the request is left in the mailbox
checkPendingActivity_keepRequest(w, draws) ==
    LET pending == w.root.pendingActivity IN
    IF pending.id # Null /\ w.act.activities # {}
       /\ pending.activity \in w.act.activities /\ pending.client # Null
    THEN Toast([w EXCEPT
            !.act = OpenFor(w.act, pending.activity, pending.client, pending.session,
                            pending.sessionActivityRecord, draws),
            !.hist.started[pending.id] = Bump(@)], "activityStarted")
    ELSE w

\* checkPendingActivity()
checkPendingActivity(w, draws) ==
    LET pending == w.root.pendingActivity IN
    IF pending.id # Null /\ w.act.activities # {}
    THEN LET activity == IF pending.activity \in w.act.activities
                         THEN pending.activity ELSE Null
         IN  IF activity # Null /\ pending.client # Null
             THEN Toast([w EXCEPT
                     !.act = OpenFor(w.act, activity, pending.client, pending.session,
                                     pending.sessionActivityRecord, draws),
                     !.root.pendingActivity = NoRequest,
                     !.hist.started[pending.id] = Bump(@)], "activityStarted")
             ELSE w
    ELSE w

\* the program points of a successful checkPendingActivity(), in the order of
\* its statements: on entry, after startActivity() has returned, after the
\* assignment $rootScope.pendingActivity = null; the entry alone otherwise
checkPendingActivityPoints(w, draws) ==
    LET pending == w.root.pendingActivity
        opened == [w EXCEPT
                     !.act = OpenFor(w.act, pending.activity, pending.client,
                                     pending.session, pending.sessionActivityRecord, draws),
                     !.hist.started[pending.id] = Bump(@)]
        cleared == [opened EXCEPT !.root.pendingActivity = NoRequest]
    IN  IF pending.id # Null /\ w.act.activities # {}
           /\ pending.activity \in w.act.activities /\ pending.client # Null
        THEN <<w, opened, cleared>>
        ELSE <<w>>

\* openActivityWithClient's worker: opens the event's activity, then clears the slot
openActivityForClient(w, data, draws) ==
    LET activity == IF data.activity \in w.act.activities THEN data.activity ELSE Null IN
    IF activity # Null /\ data.client # Null
    THEN Toast([w EXCEPT
            !.act = OpenFor(w.act, activity, data.client, data.session,
                            data.sessionActivityRecord, draws),
            !.root.pendingActivity = NoRequest,
            !.hist.eventStarts = Bump(@)], "activityStarted")
    ELSE w

\* a faulty watch: notes the change of the slot but never checks it
WatchPendingActivity_noCheck(w, draws) ==
    IF w.act.alive /\ w.act.watchLast # w.root.pendingActivity.id
    THEN [w EXCEPT !.act.watchLast = w.root.pendingActivity.id]
    ELSE w

\* $watch on $rootScope.pendingActivity (one digest pass)
WatchPendingActivity(w, draws) ==
    IF w.act.alive /\ w.act.watchLast # w.root.pendingActivity.id
    THEN LET w1 == [w EXCEPT !.act.watchLast = w.root.pendingActivity.id] IN
         IF w.root.pendingActivity.id # Null /\ w.act.activities # {}
         THEN checkPendingActivity(w1, draws)
         ELSE w1
    ELSE w

-----------------------------------------------------------------------------
(* Numbers: a JavaScript number is an IEEE 754 double. A positive double is *)
(* the record [sig, exp]: sig its 53 significand bits, the first one 1, and *)
(* its value is sig * 2^exp (sig read as a binary integer).                 *)

NumberZero == [sig |-> [i \in 1..SigBits |-> 0], exp |-> 0]

\* the bits of a small integer q >= 0, most significant first (none for 0)
RECURSIVE bitsOf(_)
bitsOf(q) == IF q = 0 THEN << >> ELSE Append(bitsOf(q \div 2), q % 2)

\* the bits of a sequence of digits in base 256, eight to the digit
bitsOfDigits(digits) ==
    [i \in 1..(8 * Len(digits)) |->
        (digits[((i - 1) \div 8) + 1] \div <<128, 64, 32, 16, 8, 4, 2, 1>>[((i - 1) % 8) + 1]) % 2]

\* the number bits * 2^scale (plus less than one unit of its last bit, when
\* inexact) cut to its first SigBits significant bits: the significand, the
\* exponent, and what was cut off compared with half a unit in the last place
normalise(bits, scale, inexact) ==
    LET all == bits \o [i \in 1..SigBits |-> 0]
        lead == CHOOSE i \in 1..Len(all) :
                    all[i] = 1 /\ \A j \in 1..(i - 1) : all[j] = 0
        last == lead + SigBits - 1
    IN  [sig |-> SubSeq(all, lead, last),
         exp |-> scale - SigBits + (Len(all) - last),
         rest |-> IF ~inexact /\ \A i \in (last + 1)..Len(all) : all[i] = 0
                  THEN "none"
                  ELSE IF all[last + 1] = 0 THEN "below"
                  ELSE IF inexact \/ \E i \in (last + 2)..Len(all) : all[i] = 1
                       THEN "above"
                  ELSE "tie"]

\* the next double above [sig, exp]
nextUp(sig, exp) ==
    IF \A i \in 1..SigBits : sig[i] = 1
    THEN [sig |-> [i \in 1..SigBits |-> IF i = 1 THEN 1 ELSE 0], exp |-> exp + 1]
    ELSE LET zero == CHOOSE i \in 1..SigBits :
                         sig[i] = 0 /\ \A j \in (i + 1)..SigBits : sig[j] = 1
         IN  [sig |-> [i \in 1..SigBits |->
                          IF i < zero THEN sig[i] ELSE IF i = zero THEN 1 ELSE 0],
              exp |-> exp]

\* round to nearest, ties to even
roundToNearest(n) ==
    IF n.rest = "above" \/ (n.rest = "tie" /\ n.sig[SigBits] = 1)
    THEN nextUp(n.sig, n.exp)
    ELSE [sig |-> n.sig, exp |-> n.exp]

\* long division: k digits in base 256 of r / b after the point (r < b), and
\* the remainder left
RECURSIVE divDigits(_, _, _)
divDigits(r, b, k) ==
    IF k = 0 THEN [digits |-> << >>, rem |-> r]
    ELSE LET more == divDigits((256 * r) % b, b, k - 1) IN
         [digits |-> <<(256 * r) \div b>> \o more.digits, rem |-> more.rem]

\* a / b for integers a > 0, b > 0, cut to SigBits significant bits
expansion(a, b) ==
    LET frac == divDigits(a % b, b, 8) IN
    normalise(bitsOf(a \div b) \o bitsOfDigits(frac.digits), -64, frac.rem # 0)

\* the JavaScript quotient a / b of two integers a >= 0, b > 0
numberDivide(a, b) ==
    IF a = 0 THEN NumberZero ELSE roundToNearest(expansion(a, b))

\* the digits in base 256 of digits[1..i] * m + carry, for a small integer m
RECURSIVE timesDigits(_, _, _, _)
timesDigits(digits, i, m, carry) ==
    IF i = 0 THEN <<carry \div 256, carry % 256>>
    ELSE Append(timesDigits(digits, i - 1, m, (digits[i] * m + carry) \div 256),
                (digits[i] * m + carry) % 256)

\* the JavaScript product x * m of a double x >= 0 and an integer 0 < m < 256
numberTimes(x, m) ==
    IF x = NumberZero THEN NumberZero
    ELSE LET bits == <<0, 0, 0>> \o x.sig
             digits == [j \in 1..(Len(bits) \div 8) |->
                          LET b(k) == bits[8 * (j - 1) + k] IN
                          128 * b(1) + 64 * b(2) + 32 * b(3) + 16 * b(4)
                              + 8 * b(5) + 4 * b(6) + 2 * b(7) + b(8)]
         IN  roundToNearest(normalise(bitsOfDigits(timesDigits(digits, Len(digits), m, 0)),
                                  x.exp, FALSE))

\* a faulty accuracy: the share of the list's cap, not of the recorded trials
accuracyOf_ofCap(trialsCorrect, currentTrial) ==
    numberTimes(numberDivide(trialsCorrect, MaxTrials), 100)

\* var accuracy = ($scope.trialsCorrect / $scope.currentTrial) * 100
accuracyOf(trialsCorrect, currentTrial) ==
    numberTimes(numberDivide(trialsCorrect, currentTrial), 100)

\* finishActivity: a run without client or without trials is only closed;
\* otherwise the progress record is posted, with the closure of its callbacks
finishActivity(w) ==
    IF w.act.activityClient = Null \/ w.act.currentTrial = 0
    THEN [w EXCEPT !.act = closeActivitySession(w.act),
                   !.hist.finishedFor = Append(@, w.act.sourceSession)]
    ELSE LET req == [client |-> w.act.activityClient,
                     activity |-> w.act.selectedActivity,
                     trials |-> w.act.currentTrial,
                     correct |-> w.act.trialsCorrect,
                     accuracy |-> accuracyOf(w.act.trialsCorrect, w.act.currentTrial),
                     session |-> w.act.sourceSession,
                     sessionActivityRecord |-> w.act.sourceSessionActivityRecord]
         IN  [w EXCEPT !.net.progress = @ (+) SetToBag({req}),
                       !.hist.finishes = @ + 1,
                       !.hist.finishedFor = Append(@, w.act.sourceSession)]

\* a faulty callback: the assignment update is sent whether or not the
\* progress record was written
ProgressResponded_updateAnyway(w, req, ok) ==
    LET w1 == [w EXCEPT !.net.progress = @ (-) SetToBag({req})]
        rec == [client |-> req.client, activity |-> req.activity,
                trials |-> req.trials, correct |-> req.correct,
                accuracy |-> req.accuracy]
        upd == [sid |-> req.session, aid |-> req.sessionActivityRecord,
                trials_attempted |-> w.act.currentTrial,
                trials_correct |-> w.act.trialsCorrect]
        w3 == IF ok THEN [w1 EXCEPT !.store.progress = Append(@, rec),
                                    !.hist.savedReports = @ + 1]
              ELSE w1
        w4 == IF req.session # Null /\ req.sessionActivityRecord # Null
              THEN [w3 EXCEPT !.net.assign = @ (+) SetToBag({upd})]
              ELSE w3
        w5 == [Toast(w4, IF ok THEN "resultSaved" ELSE "resultNotSaved")
                  EXCEPT !.act = closeActivitySession(w4.act)]
    IN  IF req.session # Null
        THEN [w5 EXCEPT !.tm.ret = @ (+) SetToBag({req.session})]
        ELSE w5

\* a faulty callback: the return to the sessions view is scheduled whether
\* or not the run came from a session
ProgressResponded_alwaysReturn(w, req, ok) ==
    LET w1 == [w EXCEPT !.net.progress = @ (-) SetToBag({req})]
        rec == [client |-> req.client, activity |-> req.activity,
                trials |-> req.trials, correct |-> req.correct,
                accuracy |-> req.accuracy]
        upd == [sid |-> req.session, aid |-> req.sessionActivityRecord,
                trials_attempted |-> w.act.currentTrial,
                trials_correct |-> w.act.trialsCorrect]
        w3 == IF ok THEN [w1 EXCEPT !.store.progress = Append(@, rec),
                                    !.hist.savedReports = @ + 1]
              ELSE w1
        w4 == IF ok /\ req.session # Null /\ req.sessionActivityRecord # Null
              THEN [w3 EXCEPT !.net.assign = @ (+) SetToBag({upd})]
              ELSE w3
        w5 == [Toast(w4, IF ok THEN "resultSaved" ELSE "resultNotSaved")
                  EXCEPT !.act = closeActivitySession(w4.act)]
    IN  [w5 EXCEPT !.tm.ret = @ (+) SetToBag({req.session})]

\* createProgressRecord(...).then / .catch
ProgressResponded(w, req, ok) ==
    LET w1 == [w EXCEPT !.net.progress = @ (-) SetToBag({req})]
        w2 == IF ok
              THEN LET rec == [client |-> req.client, activity |-> req.activity,
                               trials |-> req.trials, correct |-> req.correct,
                               accuracy |-> req.accuracy]
                       upd == [sid |-> req.session, aid |-> req.sessionActivityRecord,
                               trials_attempted |-> w.act.currentTrial,
                               trials_correct |-> w.act.trialsCorrect]
                       w3 == [w1 EXCEPT !.store.progress = Append(@, rec)]
                       w4 == IF req.session # Null /\ req.sessionActivityRecord # Null
                             THEN [w3 EXCEPT !.net.assign = @ (+) SetToBag({upd})]
                             ELSE w3
                   IN  Toast([w4 EXCEPT !.hist.savedReports = @ + 1], "resultSaved")
              ELSE Toast(w1, "resultNotSaved")
        w5 == [w2 EXCEPT !.act = closeActivitySession(w2.act)]
    IN  IF req.session # Null
        THEN [w5 EXCEPT !.tm.ret = @ (+) SetToBag({req.session})]
        ELSE w5

\* the server's answer to updateSessionActivity
AssignmentResponded(w, upd, ok) ==
    LET w1 == [w EXCEPT !.net.assign = @ (-) SetToBag({upd})] IN
    IF ok
    THEN [w1 EXCEPT !.store.assignments[upd.aid] =
                        [trials_attempted |-> upd.trials_attempted,
                         trials_correct |-> upd.trials_correct]]
    ELSE [w1 EXCEPT !.hist.assignFailures = @ + 1]

\* the $timeout of 500 that hands control back to the sessions view
ReturnTimerFired(w, sid) ==
    [w EXCEPT !.tm.ret = @ (-) SetToBag({sid}),
              !.hist.returns = Append(@, sid),
              !.root.returnToSessionId = sid,
              !.root.currentView = "sessions"]

-----------------------------------------------------------------------------
(* Time: instants are counted in ticks, TicksPerMinute to the minute *)

TicksPerMinute == 2

\* formatDateTimeForInput: the datetime-local value keeps minutes, drops seconds
formatDateTimeForInput(t) == IF t = Null THEN Null ELSE t - (t % TicksPerMinute)

\* convertLocalDateTimeToISO: the same instant, written with its zone offset
convertLocalDateTimeToISO(t) == t

\* duration_minutes of a new session form
DefaultDuration == 30

\* the instants of the start scenario: T + EarlyOffset and T + LateOffset minutes
EarlyOffset == 10
LateOffset == 40

ScheduledStart == EarlyOffset * TicksPerMinute

Instants == {ScheduledStart - 1, ScheduledStart,
             ScheduledStart + EarlyOffset * TicksPerMinute,
             ScheduledStart + DefaultDuration * TicksPerMinute,
             ScheduledStart + DefaultDuration * TicksPerMinute + 1,
             ScheduledStart + LateOffset * TicksPerMinute}

\* what the operator can put into the edit form
FormDates == {Null, ScheduledStart, ScheduledStart + DefaultDuration * TicksPerMinute}
FormDurations == {DefaultDuration, EarlyOffset}

-----------------------------------------------------------------------------
(* Session store (REST back end) *)

ActivityOfAssignment(aid) == aid
SessionOfAssignment(aid) == 1
AssignmentsOf(sid) == {aid \in AssignmentIds : SessionOfAssignment(aid) = sid}

\* PUT /sessions/id, POST /sessions/id/start, POST /sessions/id/complete
StoreApply(st, req) ==
    LET s0 == st.sessions[req.sid]
        s1 == IF req.status # "" THEN [s0 EXCEPT !.status = req.status] ELSE s0
        s2 == IF req.session_date # Undefined
              THEN [s1 EXCEPT !.session_date = req.session_date] ELSE s1
        s3 == IF req.duration_minutes # Undefined
              THEN [s2 EXCEPT !.duration_minutes = req.duration_minutes] ELSE s2
    IN  [st EXCEPT !.sessions[req.sid] = s3]

\* GET /sessions: fresh session objects
FreshSessions(st) ==
    [sid \in SessionIds |->
        [status |-> st.sessions[sid].status,
         session_date |-> st.sessions[sid].session_date,
         duration_minutes |-> st.sessions[sid].duration_minutes,
         client_id |-> st.sessions[sid].client_id,
         assignedDefined |-> FALSE,
         assignedActivities |-> << >>]]

\* GET /sessions/id/activities: trials_attempted of each assignment of the session
FreshAssignments(st, sid) ==
    [aid \in AssignmentsOf(sid) |-> st.assignments[aid].trials_attempted]

-----------------------------------------------------------------------------
(* Session lifecycle (SessionsController) *)

\* $scope.sessions: the objects of the latest GET /sessions
Gen(w) == Len(w.ses.objs)
HasSessions(w) == Gen(w) > 0
CurrentSessions(w) == w.ses.objs[Gen(w)]

Falsy(n) == n = Undefined \/ n = 0

\* a faulty test: one attempted assignment is enough
allCompleted_any(assignedActivities) ==
    \E aid \in DOMAIN assignedActivities : ~Falsy(assignedActivities[aid])

\* the loop over session.assignedActivities
allCompleted(assignedActivities) ==
    \A aid \in DOMAIN assignedActivities : ~Falsy(assignedActivities[aid])

\* a faulty test: the status is not looked at
shouldAutoComplete_noStatus(session) ==
    /\ session.assignedDefined
    /\ DOMAIN session.assignedActivities # {}
    /\ allCompleted(session.assignedActivities)

\* the test of checkSessionAutoComplete and of checkSessionStatuses
shouldAutoComplete(session) ==
    /\ session.status = "in_progress"
    /\ session.assignedDefined
    /\ DOMAIN session.assignedActivities # {}
    /\ allCompleted(session.assignedActivities)

\* a request to the session store; inWindow notes whether the instant it was
\* issued at lay inside the session's window as the view knew it
StatusRequest(op, sid, gen, status, date, duration, inWindow) ==
    [op |-> op, sid |-> sid, gen |-> gen, status |-> status,
     session_date |-> date, duration_minutes |-> duration, inWindow |-> inWindow]

InWindow(now, start, duration) ==
    start <= now /\ now <= start + duration * TicksPerMinute

Send(w, req) == [w EXCEPT !.net.status = @ (+) SetToBag({req})]

\* updateSessionStatus(session, newStatus, message): the request part
updateSessionStatus(w, gen, sid, newStatus) ==
    Send(w, StatusRequest("auto", sid, gen, newStatus, Undefined, Undefined, TRUE))

checkSessionAutoComplete(w, gen, sid) ==
    IF shouldAutoComplete(w.ses.objs[gen][sid])
    THEN updateSessionStatus(w, gen, sid, "completed")
    ELSE w

RECURSIVE checkEach(_, _)
checkEach(w, sids) ==
    IF sids = {} THEN w
    ELSE LET sid == CHOOSE x \in sids : \A y \in sids : x <= y
             w1 == IF shouldAutoComplete(CurrentSessions(w)[sid])
                   THEN updateSessionStatus(w, Gen(w), sid, "completed")
                   ELSE w
         IN  checkEach(w1, sids \ {sid})

checkSessionStatuses(w) ==
    IF HasSessions(w) THEN checkEach(w, SessionIds) ELSE w

\* a faulty start: a new $interval is registered on every call
startStatusCheckInterval_noGuard(w) ==
    [checkSessionStatuses(w) EXCEPT !.ses.statusCheckInterval = TRUE,
                                    !.tm.intervals = Bump(@)]

\* tm.intervals counts the $interval timers registered and not cancelled
startStatusCheckInterval(w) ==
    IF w.ses.statusCheckInterval
    THEN w
    ELSE [checkSessionStatuses(w) EXCEPT !.ses.statusCheckInterval = TRUE,
                                         !.tm.intervals = @ + 1]

stopStatusCheckInterval(w) ==
    IF w.ses.statusCheckInterval
    THEN [w EXCEPT !.ses.statusCheckInterval = FALSE, !.tm.intervals = @ - 1]
    ELSE w

loadSessions(w) == [w EXCEPT !.net.sessions = @ + 1]

\* ApiService.getSessions(params).then / .catch
SessionsResponded(w, ok) ==
    LET w1 == [w EXCEPT !.net.sessions = @ - 1] IN
    IF ok
    THEN LET w2 == [w1 EXCEPT !.ses.objs = Append(@, FreshSessions(w.store))]
             cards == {[gen |-> Gen(w2), sid |-> sid] : sid \in SessionIds}
             w3 == [w2 EXCEPT !.net.cards = @ (+) SetToBag(cards)]
         IN  startStatusCheckInterval(w3)
    ELSE Toast(w1, "loadFailed")

\* loadSessionActivitiesForCard(session): .then / .catch
CardResponded(w, card, ok) ==
    LET w1 == [w EXCEPT !.net.cards = @ (-) SetToBag({card})] IN
    IF ok
    THEN checkSessionAutoComplete(
            [w1 EXCEPT !.ses.objs[card.gen][card.sid].assignedDefined = TRUE,
                       !.ses.objs[card.gen][card.sid].assignedActivities =
                            FreshAssignments(w.store, card.sid)],
            card.gen, card.sid)
    ELSE [w1 EXCEPT !.ses.objs[card.gen][card.sid].assignedDefined = TRUE,
                    !.ses.objs[card.gen][card.sid].assignedActivities = << >>]

NoSession == [gen |-> 0, sid |-> 0]
EmptyForm == [session_date |-> Null, duration_minutes |-> Undefined, status |-> ""]

closeSessionModal(s) ==
    [s EXCEPT !.showSessionModal = FALSE, !.sessionForm = EmptyForm,
              !.editingSession = NoSession, !.originalSessionDate = Null]

\* a faulty callback: a failed automatic update completes the session locally
StatusResponded_optimistic(w, req, ok) ==
    LET w1 == [w EXCEPT !.net.status = @ (-) SetToBag({req})] IN
    IF req.op = "auto"
    THEN LET w2 == Toast([w1 EXCEPT !.ses.objs[req.gen][req.sid].status = req.status,
                                    !.hist.completedToasts = Bump(@)],
                         "sessionCompleted")
         IN  IF ok THEN [w2 EXCEPT !.store = StoreApply(@, req)] ELSE w2
    ELSE IF ok
         THEN LET w2 == Toast([w1 EXCEPT !.store = StoreApply(@, req)], "statusUpdated")
                  w3 == IF req.op = "save"
                        THEN [w2 EXCEPT !.ses = closeSessionModal(@)]
                        ELSE w2
              IN  loadSessions(w3)
         ELSE Toast(w1, "updateFailed")

\* the answer to a status request: updateSessionStatus's callbacks for "auto",
\* the callbacks of saveSession, changeSessionStatus, startSession, completeSession
StatusResponded(w, req, ok) ==
    LET w1 == [w EXCEPT !.net.status = @ (-) SetToBag({req})] IN
    IF req.op = "auto"
    THEN IF ok
         THEN Toast([w1 EXCEPT !.store = StoreApply(@, req),
                               !.ses.objs[req.gen][req.sid].status = req.status,
                               !.hist.completedToasts = Bump(@)],
                    "sessionCompleted")
         ELSE w1
    ELSE IF ok
         THEN LET w2 == Toast([w1 EXCEPT !.store = StoreApply(@, req)], "statusUpdated")
                  w3 == IF req.op = "save"
                        THEN [w2 EXCEPT !.ses = closeSessionModal(@)]
                        ELSE w2
              IN  loadSessions(w3)
         ELSE Toast(w1, "updateFailed")

\* a faulty reader: reloads but leaves the token in its slot
WatchReturnToSessionId_keepToken(w) ==
    IF w.ses.alive /\ ~w.ses.destroyed /\ w.ses.watchLast # w.root.returnToSessionId
    THEN LET w1 == [w EXCEPT !.ses.watchLast = w.root.returnToSessionId] IN
         IF w.root.returnToSessionId # Null
         THEN Toast(loadSessions(w1), "returned")
         ELSE w1
    ELSE w

\* $watch on $rootScope.returnToSessionId (one digest pass)
WatchReturnToSessionId(w) ==
    IF w.ses.alive /\ ~w.ses.destroyed /\ w.ses.watchLast # w.root.returnToSessionId
    THEN LET w1 == [w EXCEPT !.ses.watchLast = w.root.returnToSessionId] IN
         IF w.root.returnToSessionId # Null
         THEN Toast([loadSessions(w1) EXCEPT !.root.returnToSessionId = Null],
                    "returned")
         ELSE w1
    ELSE w

\* $digest: the watchers run until none of them sees a change
DigestPass(w, draws) ==
    Value({WatchReturnToSessionId(w1) :
              w1 \in {WatchPendingActivity(w0, draws) : w0 \in {w}}})
Digest(w, draws) ==
    Value({DigestPass(w2, draws) :
              w2 \in {DigestPass(w1, draws) :
                         w1 \in {DigestPass(w0, draws) : w0 \in {w}}}})

\* the digest after a handler that leaves pendingActivity alone or empties it:
\* the pendingActivity watcher starts nothing, so no shuffle is drawn
DigestQuiet(w) == Digest(w, CHOOSE d \in ValidDraws : TRUE)

\* a faulty publisher: keeps an older pending request instead of overwriting it
openActivityFromSession_keepOlder(w, activity, sid, sessionActivityRecord) ==
    LET session == w.ses.objs[Len(w.ses.objs)][sid]
        known == w.ses.allClients \cup w.ses.clients
    IN  IF session.status # "in_progress" \/ session.client_id \notin known
        THEN w
        ELSE [w EXCEPT !.root.pendingActivity =
                            IF @.id # Null THEN @
                            ELSE [id |-> w.hist.published + 1, activity |-> activity,
                                  client |-> session.client_id, session |-> sid,
                                  sessionActivityRecord |-> sessionActivityRecord],
                       !.hist.published = @ + 1]

\* a faulty publisher: an assignment already attempted is opened again
openActivityFromSession_again(w, activity, sid, sessionActivityRecord) ==
    LET session == CurrentSessions(w)[sid]
        known == w.ses.allClients \cup w.ses.clients
    IN  IF session.status # "in_progress"
        THEN Toast(w, "mustBeInProgress")
        ELSE IF session.client_id \notin known
        THEN Toast(w, "clientNotFound")
        ELSE [w EXCEPT !.root.pendingActivity =
                            [id |-> w.hist.published + 1, activity |-> activity,
                             client |-> session.client_id, session |-> sid,
                             sessionActivityRecord |-> sessionActivityRecord],
                       !.hist.published = @ + 1,
                       !.tm.nav = @ \cup {"activities"}]

\* openActivityFromSession(activity, session, sessionActivityRecord)
openActivityFromSession(w, activity, sid, sessionActivityRecord) ==
    LET session == CurrentSessions(w)[sid]
        known == w.ses.allClients \cup w.ses.clients
        client == IF session.client_id \in known THEN session.client_id ELSE Null
        found == {aid \in DOMAIN session.assignedActivities :
                     ActivityOfAssignment(aid) = activity}
        saRecord == IF sessionActivityRecord # Null THEN sessionActivityRecord
                    ELSE IF session.assignedDefined /\ found # {}
                         THEN CHOOSE aid \in found : \A x \in found : aid <= x
                         ELSE Null
    IN  IF session.status # "in_progress"
        THEN Toast(w, "mustBeInProgress")
        ELSE IF sessionActivityRecord # Null
                /\ session.assignedActivities[sessionActivityRecord] > 0
        THEN Toast(w, "alreadyCompleted")
        ELSE IF client = Null
        THEN Toast(w, "clientNotFound")
        ELSE [w EXCEPT !.root.pendingActivity =
                            [id |-> w.hist.published + 1, activity |-> activity,
                             client |-> client, session |-> sid,
                             sessionActivityRecord |-> saRecord],
                       !.hist.published = @ + 1,
                       !.hist.publishedAt[w.hist.published + 1] =
                            IF w.act.activities = {} THEN "beforeLoad"
                            ELSE IF w.tm.retries < RetryCount THEN "betweenRetries"
                            ELSE "afterRetries",
                       !.tm.nav = @ \cup {"activities"}]

\* a faulty rejection: the error is shown but the update is sent all the same
saveSession_sendAnyway(w, now) ==
    LET form == w.ses.sessionForm
        editing == w.ses.objs[w.ses.editingSession.gen][w.ses.editingSession.sid]
        sessionDateValue == IF form.session_date # Null THEN form.session_date
                            ELSE w.ses.originalSessionDate
        sent == Send(w, StatusRequest("save", w.ses.editingSession.sid,
                                      w.ses.editingSession.gen, form.status,
                                      sessionDateValue, form.duration_minutes,
                                      InWindow(now, sessionDateValue,
                                               form.duration_minutes)))
    IN  IF form.status = "in_progress" /\ editing.status # "in_progress"
           /\ ~InWindow(now, sessionDateValue, form.duration_minutes)
        THEN Toast(sent, "cannotStart")
        ELSE sent

\* a faulty validation: only a start that is too early is rejected
saveSession_noEndCheck(w, now) ==
    LET form == w.ses.sessionForm
        editing == w.ses.objs[w.ses.editingSession.gen][w.ses.editingSession.sid]
        sessionDateValue == IF form.session_date # Null THEN form.session_date
                            ELSE w.ses.originalSessionDate
    IN  IF form.status = "in_progress" /\ editing.status # "in_progress"
           /\ now < sessionDateValue
        THEN Toast(w, "cannotStart")
        ELSE Send(w, StatusRequest("save", w.ses.editingSession.sid,
                                   w.ses.editingSession.gen, form.status,
                                   sessionDateValue, form.duration_minutes,
                                   InWindow(now, sessionDateValue, form.duration_minutes)))

\* a faulty check: the window is the one the session had before the edit
saveSession_oldWindow(w, now) ==
    LET form == w.ses.sessionForm
        editing == w.ses.objs[w.ses.editingSession.gen][w.ses.editingSession.sid]
        date == IF form.session_date # Null
                THEN convertLocalDateTimeToISO(form.session_date)
                ELSE IF w.ses.originalSessionDate # Null
                     THEN w.ses.originalSessionDate ELSE Undefined
    IN  IF form.status = "in_progress" /\ editing.status # "in_progress"
           /\ ~InWindow(now, editing.session_date, editing.duration_minutes)
        THEN Toast(w, "cannotStart")
        ELSE Send(w, StatusRequest("save", w.ses.editingSession.sid,
                                   w.ses.editingSession.gen, form.status, date,
                                   form.duration_minutes,
                                   InWindow(now, editing.session_date,
                                            editing.duration_minutes)))

\* a faulty validation: the window is checked whatever the target status
saveSession_checkAlways(w, now) ==
    LET form == w.ses.sessionForm
        sessionDateValue == IF form.session_date # Null THEN form.session_date
                            ELSE w.ses.originalSessionDate
    IN  IF ~InWindow(now, sessionDateValue, form.duration_minutes)
        THEN Toast(w, "cannotStart")
        ELSE Send(w, StatusRequest("save", w.ses.editingSession.sid,
                                   w.ses.editingSession.gen, form.status,
                                   sessionDateValue, form.duration_minutes, TRUE))

\* saveSession, editing branch; now is the instant new Date() returns
saveSession(w, now) ==
    LET form == w.ses.sessionForm
        editing == w.ses.objs[w.ses.editingSession.gen][w.ses.editingSession.sid]
        sessionDateValue == IF form.session_date # Null THEN form.session_date
                            ELSE IF w.ses.originalSessionDate # Null
                                 THEN w.ses.originalSessionDate
                                 ELSE editing.session_date
        sessionEndTime == sessionDateValue + form.duration_minutes * TicksPerMinute
        date == IF form.session_date # Null
                THEN convertLocalDateTimeToISO(form.session_date)
                ELSE IF w.ses.originalSessionDate # Null
                     THEN w.ses.originalSessionDate ELSE Undefined
    IN  IF form.status = "in_progress" /\ editing.status # "in_progress"
           /\ (now < sessionDateValue \/ now > sessionEndTime)
        THEN Toast(w, "cannotStart")
        ELSE Send(w, StatusRequest("save", w.ses.editingSession.sid,
                                   w.ses.editingSession.gen, form.status, date,
                                   form.duration_minutes,
                                   InWindow(now, sessionDateValue, form.duration_minutes)))

editSession(s, gen, sid) ==
    LET session == s.objs[gen][sid] IN
    [s EXCEPT !.editingSession = [gen |-> gen, sid |-> sid],
              !.originalSessionDate = session.session_date,
              !.sessionForm = [session_date |-> formatDateTimeForInput(session.session_date),
                               duration_minutes |-> session.duration_minutes,
                               status |-> session.status],
              !.showSessionModal = TRUE]

\* changeSessionStatus, startSession, completeSession: the request is sent as it is
SessionInWindow(w, sid, now) ==
    InWindow(now, CurrentSessions(w)[sid].session_date,
             CurrentSessions(w)[sid].duration_minutes)

changeSessionStatus(w, sid, newStatus, now) ==
    Send(w, StatusRequest("change", sid, Gen(w), newStatus, Undefined, Undefined,
                          SessionInWindow(w, sid, now)))

startSession(w, sid, now) ==
    Send(w, StatusRequest("start", sid, Gen(w), "in_progress", Undefined, Undefined,
                          SessionInWindow(w, sid, now)))

completeSession(w, sid, now) ==
    Send(w, StatusRequest("complete", sid, Gen(w), "completed", Undefined, Undefined,
                          SessionInWindow(w, sid, now)))

-----------------------------------------------------------------------------
(* Initial state: both controllers not yet constructed, the store as the   *)
(* back end holds it (one scheduled session with two assignments)          *)

InitAct ==
    [alive |-> FALSE, activities |-> {}, selectedCategory |-> "",
     showActivitySession |-> FALSE, selectedActivity |-> Null, activityClient |-> Null,
     activityWords |-> << >>, currentWord |-> Null, currentWordIndex |-> 0,
     currentTrial |-> 0, totalTrials |-> MaxTrials, trialsCorrect |-> 0,
     sourceSession |-> Null, sourceSessionActivityRecord |-> Null,
     watchLast |-> InitWatchVal]

InitSes ==
    [alive |-> FALSE, destroyed |-> FALSE, objs |-> << >>, clients |-> {},
     allClients |-> {}, statusCheckInterval |-> FALSE, showSessionModal |-> FALSE,
     editingSession |-> NoSession, sessionForm |-> EmptyForm,
     originalSessionDate |-> Null, watchLast |-> InitWatchVal]

InitStore(status, attempted1, attempted2) ==
    [sessions |-> [sid \in SessionIds |->
                      [status |-> status, session_date |-> ScheduledStart,
                       duration_minutes |-> DefaultDuration, client_id |-> 1]],
     assignments |-> [aid \in AssignmentIds |->
                      [trials_attempted |-> IF aid = 1 THEN attempted1 ELSE attempted2,
                       trials_correct |-> 0]],
     progress |-> << >>]

\* the state after the page is loaded: no controller constructed yet
InitWorld(status, attempted1, attempted2) ==
    [root |-> [pendingActivity |-> NoRequest, returnToSessionId |-> Null,
               currentView |-> "dashboard"],
     act |-> InitAct,
     tm |-> [retries |-> 0, postLoad |-> 0, event |-> EmptyBag, ret |-> EmptyBag,
             intervals |-> 0,
             nav |-> {}],
     net |-> [activities |-> EmptyBag, progress |-> EmptyBag, assign |-> EmptyBag,
              clients |-> {}, available |-> FALSE, sessions |-> 0,
              cards |-> EmptyBag, status |-> EmptyBag],
     ses |-> InitSes,
     store |-> InitStore(status, attempted1, attempted2),
     hist |-> [toasts |-> {}, started |-> [r \in 1..MaxPublish |-> 0],
               publishedAt |-> [r \in 1..MaxPublish |-> ""],
               eventStarts |-> 0, finishes |-> 0, completedToasts |-> 0,
               published |-> 0, catalogLoads |-> 0, reloads |-> 0,
               finishedFor |-> << >>, returns |-> << >>,
               savedReports |-> 0, assignFailures |-> 0, events |-> 0,
               statusOps |-> 0, failures |-> 0]]

StartIn(w) ==
    /\ root = w.root
    /\ act = w.act
    /\ tm = w.tm
    /\ net = w.net
    /\ ses = w.ses
    /\ store = w.store
    /\ hist = w.hist

InitWith(status, attempted1, attempted2) ==
    StartIn(InitWorld(status, attempted1, attempted2))

-----------------------------------------------------------------------------
(* Actions of the ActivitiesController *)

loadActivities(w) ==
    [w EXCEPT !.net.activities = @ (+) SetToBag({w.act.selectedCategory}),
              !.hist.catalogLoads = @ + 1]

\* construction: loadActivities(), the watcher, the four delayed checks
ActivitiesInit ==
    /\ ~act.alive
    /\ Commit(DigestQuiet(loadActivities(
          [Begin(World) EXCEPT !.act.alive = TRUE])))

\* ApiService.getActivities(params).then / .catch
ActivitiesLoaded ==
    \E category \in BagToSet(net.activities), outcome \in {"data", "empty", "error"} :
        LET w == Begin(World)
            data == IF outcome = "data"
                    THEN {a \in ActivityIds : category = "" \/ CategoryOf(a) = category}
                    ELSE {}
            list == IF outcome = "error" \/ data = {}
                    THEN getSampleActivities(w.act.selectedCategory)
                    ELSE data
        IN  Commit(DigestQuiet([w EXCEPT !.net.activities = @ (-) SetToBag({category}),
                                         !.act.activities = list,
                                         !.tm.postLoad = @ + 1]))

\* the $timeout of 100 after the catalog arrived
PostLoadCheck ==
    /\ tm.postLoad > 0
    /\ \E draws \in ValidDraws :
         Commit(Digest(checkPendingActivity(
            [Begin(World) EXCEPT !.tm.postLoad = @ - 1], draws), draws))

\* the delayed checks at 300, 600, 1000 and 1500
DelayedCheck ==
    /\ act.alive
    /\ tm.retries < RetryCount
    /\ \E draws \in ValidDraws :
         Commit(Digest(checkPendingActivity(
            [Begin(World) EXCEPT !.tm.retries = @ + 1], draws), draws))

FilterByCategory ==
    /\ act.alive
    /\ hist.catalogLoads < MaxCatalogLoads
    /\ \E category \in Categories :
         Commit(DigestQuiet(loadActivities(
            [Begin(World) EXCEPT !.act.selectedCategory = category])))

SelectActivity ==
    /\ act.alive
    /\ \E activity \in act.activities :
         Commit(DigestQuiet(
            [Begin(World) EXCEPT !.act = selectActivity(@, activity)]))

SelectActivityClient ==
    /\ act.alive /\ act.showActivitySession
    /\ \E client \in ClientIds, draws \in DrawsFor(act.activityWords) :
         Commit(DigestQuiet(
            [Begin(World)
                EXCEPT !.act = selectActivityClient(@, client, draws)]))

RecordResponse ==
    /\ act.alive /\ act.showActivitySession
    /\ \E isCorrect \in BOOLEAN :
         Commit(DigestQuiet(
            [Begin(World) EXCEPT !.act = recordResponse(@, isCorrect)]))

ResetActivity ==
    /\ act.alive /\ act.showActivitySession
    /\ \E draws \in DrawsFor(act.activityWords) :
         Commit(DigestQuiet(
            [Begin(World) EXCEPT !.act = resetActivity(@, draws)]))

FinishActivity ==
    /\ act.alive /\ act.showActivitySession
    /\ hist.finishes < MaxFinishes
    /\ Commit(DigestQuiet(finishActivity(Begin(World))))

CloseActivitySession ==
    /\ act.alive /\ act.showActivitySession
    /\ Commit(DigestQuiet(
          [Begin(World) EXCEPT !.act = closeActivitySession(@)]))

EventData == [activity : ActivityIds, client : ClientIds,
              session : {Null}, sessionActivityRecord : {Null}]

\* $on('openActivityWithClient'): opens at once, or after 500 when the catalog is empty
OpenActivityWithClient ==
    /\ act.alive
    /\ hist.events < MaxEvents
    /\ \E data \in EventData, draws \in ValidDraws :
         LET w == [Begin(World) EXCEPT !.hist.events = @ + 1] IN
         IF w.act.activities = {}
         THEN Commit(DigestQuiet([w EXCEPT !.tm.event = @ (+) SetToBag({data})]))
         ELSE Commit(DigestQuiet(openActivityForClient(w, data, draws)))

DelayedOpen ==
    \E data \in BagToSet(tm.event), draws \in ValidDraws :
        Commit(DigestQuiet(openActivityForClient(
           [Begin(World) EXCEPT !.tm.event = @ (-) SetToBag({data})],
           data, draws)))

ProgressResponse ==
    \E req \in BagToSet(net.progress), ok \in Outcomes :
        Commit(DigestQuiet(ProgressResponded(Answered(Begin(World), ok), req, ok)))

AssignmentResponse ==
    \E upd \in BagToSet(net.assign), ok \in Outcomes :
        Commit(DigestQuiet(AssignmentResponded(Answered(Begin(World), ok), upd, ok)))

ReturnTimer ==
    \E sid \in BagToSet(tm.ret) :
        Commit(DigestQuiet(ReturnTimerFired(Begin(World), sid)))

\* the $timeout of 0 that switches the view after a publish
NavigateTimer ==
    \E view \in tm.nav :
        Commit(DigestQuiet([Begin(World)
                               EXCEPT !.tm.nav = @ \ {view}, !.root.currentView = view]))

-----------------------------------------------------------------------------
(* Actions of the SessionsController *)

\* construction: loadClients(), loadAllClients(), loadAvailableActivities(loadSessions)
SessionsInit ==
    /\ ~ses.alive
    /\ Commit(DigestQuiet(
          [Begin(World) EXCEPT !.ses.alive = TRUE,
                                               !.net.clients = {"clients", "allClients"},
                                               !.net.available = TRUE]))

ClientsLoaded ==
    \E which \in net.clients, ok \in Outcomes :
        LET w == [Answered(Begin(World), ok) EXCEPT !.net.clients = @ \ {which}] IN
        Commit(DigestQuiet(
            IF ~ok THEN w
            ELSE IF which = "clients" THEN [w EXCEPT !.ses.clients = ClientIds]
            ELSE [w EXCEPT !.ses.allClients = ClientIds]))

\* loadAvailableActivities: both outcomes call the callback, loadSessions
AvailableActivitiesLoaded ==
    /\ net.available
    /\ Commit(DigestQuiet(loadSessions(
          [Begin(World) EXCEPT !.net.available = FALSE])))

SessionsLoaded ==
    /\ net.sessions > 0
    /\ \E ok \in Outcomes :
         Commit(DigestQuiet(SessionsResponded(Answered(Begin(World), ok), ok)))

CardLoaded ==
    \E card \in BagToSet(net.cards), ok \in Outcomes :
        Commit(DigestQuiet(CardResponded(Answered(Begin(World), ok), card, ok)))

\* the $interval of 30000
StatusCheckTick ==
    /\ ses.statusCheckInterval
    /\ BagCardinality(net.status) < MaxInFlight
    /\ Commit(DigestQuiet(checkSessionStatuses(Begin(World))))

StatusResponse ==
    \E req \in BagToSet(net.status), ok \in Outcomes :
        Commit(DigestQuiet(StatusResponded(Answered(Begin(World), ok), req, ok)))

SessionsVisible == ses.alive /\ ~ses.destroyed /\ Len(ses.objs) > 0

OpenActivityFromSession ==
    /\ SessionsVisible
    /\ hist.published < MaxPublish
    /\ \E sid \in SessionIds, draws \in ValidDraws :
         LET session == ses.objs[Len(ses.objs)][sid] IN
         \E sessionActivityRecord \in DOMAIN session.assignedActivities :
            Commit(Digest(openActivityFromSession(
                Begin(World),
                ActivityOfAssignment(sessionActivityRecord), sid, sessionActivityRecord),
                draws))

ChangeSessionStatus ==
    /\ SessionsVisible
    /\ hist.statusOps < MaxStatusOps
    /\ \E sid \in SessionIds, newStatus \in Statuses, now \in Instants :
         Commit(DigestQuiet(changeSessionStatus(
            [Begin(World) EXCEPT !.hist.statusOps = @ + 1],
            sid, newStatus, now)))

StartSession ==
    /\ SessionsVisible
    /\ hist.statusOps < MaxStatusOps
    /\ \E sid \in SessionIds, now \in Instants :
         Commit(DigestQuiet(startSession(
            [Begin(World) EXCEPT !.hist.statusOps = @ + 1], sid, now)))

CompleteSession ==
    /\ SessionsVisible
    /\ hist.statusOps < MaxStatusOps
    /\ \E sid \in SessionIds, now \in Instants :
         Commit(DigestQuiet(completeSession(
            [Begin(World) EXCEPT !.hist.statusOps = @ + 1], sid, now)))

\* filterSessions: the operator reloads the list
FilterSessions ==
    /\ SessionsVisible
    /\ hist.reloads < MaxReloads
    /\ Commit(DigestQuiet(loadSessions(
          [Begin(World) EXCEPT !.hist.reloads = @ + 1])))

\* $on('$destroy')
SessionsDestroy ==
    /\ ses.alive /\ ~ses.destroyed
    /\ Commit(DigestQuiet(stopStatusCheckInterval(
          [Begin(World) EXCEPT !.ses.destroyed = TRUE])))

EditSession ==
    /\ SessionsVisible /\ ~ses.showSessionModal
    /\ \E sid \in SessionIds :
         Commit(DigestQuiet(
            [Begin(World) EXCEPT !.ses = editSession(@, Len(@.objs), sid)]))

\* the operator fills in the edit form
SetForm ==
    /\ SessionsVisible /\ ses.showSessionModal
    /\ \E date \in FormDates, duration \in FormDurations, status \in Statuses :
         Commit(DigestQuiet(
            [Begin(World) EXCEPT
                !.ses.sessionForm = [session_date |-> date,
                                     duration_minutes |-> duration,
                                     status |-> status]]))

SaveSession ==
    /\ SessionsVisible /\ ses.showSessionModal
    /\ ses.editingSession # NoSession
    /\ hist.statusOps < MaxStatusOps
    /\ \E now \in Instants :
         Commit(DigestQuiet(saveSession(
            [Begin(World) EXCEPT !.hist.statusOps = @ + 1], now)))

CloseSessionModal ==
    /\ SessionsVisible /\ ses.showSessionModal
    /\ Commit(DigestQuiet(
          [Begin(World) EXCEPT !.ses = closeSessionModal(@)]))

-----------------------------------------------------------------------------
(* Specifications *)

\* The program is checked in parts.  Each specification below lets every
\* handler of the part it is about run, and keeps the rest of the program in
\* the state it has when its own events do not occur.

\* the store as the program finds it: a session that is already in progress,
\* none of its assignments attempted
Init == InitWith("in_progress", 0, 0)

ConsumerNext ==
    \/ ActivitiesInit \/ ActivitiesLoaded \/ PostLoadCheck \/ DelayedCheck
    \/ FilterByCategory \/ OpenActivityWithClient \/ DelayedOpen

EngineNext ==
    \/ SelectActivity \/ SelectActivityClient \/ RecordResponse
    \/ ResetActivity \/ CloseActivitySession

FinishNext ==
    \/ FinishActivity \/ ProgressResponse \/ AssignmentResponse \/ ReturnTimer

PublisherNext ==
    \/ SessionsInit \/ ClientsLoaded \/ AvailableActivitiesLoaded \/ SessionsLoaded
    \/ CardLoaded \/ OpenActivityFromSession

LifecycleNext ==
    \/ SessionsInit \/ AvailableActivitiesLoaded \/ SessionsLoaded \/ CardLoaded
    \/ StatusCheckTick \/ StatusResponse \/ FilterSessions \/ SessionsDestroy

StatusOpsNext ==
    \/ ChangeSessionStatus \/ StartSession \/ CompleteSession

FormNext ==
    \/ EditSession \/ SetForm \/ SaveSession \/ CloseSessionModal

\* the handoff: the sessions view publishes, the activities view consumes
Next == ConsumerNext \/ PublisherNext

Spec == Init /\ [][Next]_vars

\* what the runtime guarantees: the view is constructed after the navigation,
\* a pending response arrives and a scheduled $timeout fires; the operator's
\* own actions (publish, filter) and the event are under no obligation
Fairness ==
    /\ WF_vars(ActivitiesInit) /\ WF_vars(ActivitiesLoaded)
    /\ WF_vars(PostLoadCheck) /\ WF_vars(DelayedCheck) /\ WF_vars(DelayedOpen)

\* the sessions view constructed and all of its loads answered: clients,
\* sessions and the assignments of every card
SessionsViewLoaded(w) ==
    LET w1 == [w EXCEPT !.ses.alive = TRUE, !.ses.clients = ClientIds,
                        !.ses.allClients = ClientIds]
        w2 == SessionsResponded(loadSessions(w1), TRUE)
        card == CHOOSE c \in BagToSet(w2.net.cards) : TRUE
    IN  CardResponded(w2, card, TRUE)

InitHandoff == StartIn(SessionsViewLoaded(InitWorld("in_progress", 0, 0)))

HandoffNext == ConsumerNext \/ OpenActivityFromSession

FairSpec == InitHandoff /\ [][HandoffNext]_vars /\ Fairness

\* the way back from a trial run: the Activities view is loaded and idle (all
\* delayed checks fired), the sessions view is loaded, the first assignment
\* was attempted earlier, and the second has just been opened from the session
ActivitiesViewLoaded(w) ==
    [w EXCEPT !.act.alive = TRUE, !.act.activities = getSampleActivities(""),
              !.act.watchLast = Null, !.tm.retries = RetryCount,
              !.hist.catalogLoads = 1]

\* no request fails from here on
Reliable(w) == [w EXCEPT !.hist.failures = MaxFailures]

TrialOpened(draws) ==
    Collect(Digest(openActivityFromSession(
        ActivitiesViewLoaded(SessionsViewLoaded(InitWorld("in_progress", 1, 0))),
        ActivityOfAssignment(2), 1, 2), draws))

InitTrial == \E draws \in ValidDraws : StartIn(Reliable(TrialOpened(draws)))

ReturnNext ==
    \/ RecordResponse \/ FinishActivity \/ ProgressResponse \/ AssignmentResponse
    \/ ReturnTimer \/ SessionsLoaded \/ CardLoaded \/ StatusCheckTick
    \/ StatusResponse

\* every response arrives and succeeds, the return $timeout and the $interval fire; the
\* operator is under no obligation to answer trials or to finish
ReturnFairness ==
    /\ WF_vars(ProgressResponse) /\ WF_vars(AssignmentResponse)
    /\ WF_vars(ReturnTimer) /\ WF_vars(SessionsLoaded) /\ WF_vars(CardLoaded)
    /\ WF_vars(StatusCheckTick) /\ WF_vars(StatusResponse)

ReturnSpec == InitTrial /\ [][ReturnNext]_vars /\ ReturnFairness

\* the checks that fire after a consumption: the request opened from the
\* session was consumed as soon as the catalog was there, the four delayed
\* checks are still to fire, the operator answers trials, resets, and filters
\* the catalog (whose reload is followed by a post-load check)
InitLateCheck ==
    \E draws \in ValidDraws : StartIn([TrialOpened(draws) EXCEPT !.tm.retries = 0])

LateCheckNext ==
    \/ RecordResponse \/ ResetActivity \/ DelayedCheck \/ FilterByCategory
    \/ ActivitiesLoaded \/ PostLoadCheck

LateCheckSpec == InitLateCheck /\ [][LateCheckNext]_vars

\* the session lifecycle: any status, any attempted counts in the store
InitLifecycle ==
    \E status \in Statuses, attempted1 \in {0, 1}, attempted2 \in {Undefined, 0, 1} :
        InitWith(status, attempted1, attempted2)

LifecycleSpec == InitLifecycle /\ [][LifecycleNext \/ StatusOpsNext]_vars

\* the sessions view on its own, over any stored session: its loads and the
\* opening of an assigned activity
PublishSpec == InitLifecycle /\ [][PublisherNext]_vars

\* starting a session: the edit form and the direct status operations
InitScheduled == InitWith("scheduled", 0, 0)

StartNext ==
    \/ SessionsInit \/ AvailableActivitiesLoaded \/ SessionsLoaded \/ StatusResponse
    \/ StatusOpsNext \/ FormNext

StartSpec == InitScheduled /\ [][StartNext]_vars

\* the trial engine on its own: the Activities view is loaded and an activity
\* is selected whose word list has n items, n = 0..MaxItems (startActivity is
\* written for a list of any length; the lists of getActivityWords are one case)
ActivitySelected(w, n) ==
    [w EXCEPT !.act = [selectActivity(@, 1) EXCEPT !.activityWords = [i \in 1..n |-> i]]]

InitEngine ==
    \E n \in 0..MaxItems :
        StartIn(ActivitySelected(ActivitiesViewLoaded(InitWorld("in_progress", 0, 0)), n))

EngineSpec == InitEngine /\ [][EngineNext]_vars

\* the result of a run: a run is started on one of the same lists, answered
\* and finished once, and the progress request is answered
InitResult ==
    \E n \in 0..MaxItems :
        \E draws \in DrawsFor([i \in 1..n |-> i]) :
            LET w == ActivitySelected(
                        ActivitiesViewLoaded(InitWorld("in_progress", 0, 0)), n)
            IN  StartIn([w EXCEPT !.act = selectActivityClient(@, 1, draws),
                                  !.hist.finishes = MaxFinishes - 1])

ResultNext == RecordResponse \/ FinishActivity \/ ProgressResponse

ResultSpec == InitResult /\ [][ResultNext]_vars

\* a run the operator started from the catalog, which may also be closed
OwnRunSpec == InitResult /\ [][ResultNext \/ CloseActivitySession]_vars

\* the round trip of a run opened from a session: the run is answered, reset
\* and finished in any order, the save succeeds or fails, the return timer
\* fires, and the sessions view, which may have been destroyed meanwhile,
\* reloads
InitRoundTrip == \E draws \in ValidDraws : StartIn(TrialOpened(draws))

RoundTripNext ==
    \/ RecordResponse \/ ResetActivity \/ FinishActivity \/ ProgressResponse
    \/ AssignmentResponse \/ ReturnTimer \/ SessionsLoaded \/ CardLoaded
    \/ SessionsDestroy

\* every response arrives and every timer fires; the operator is under no
\* obligation
RoundTripFairness ==
    /\ WF_vars(ProgressResponse) /\ WF_vars(AssignmentResponse)
    /\ WF_vars(ReturnTimer) /\ WF_vars(SessionsLoaded) /\ WF_vars(CardLoaded)

RoundTripSpec == InitRoundTrip /\ [][RoundTripNext]_vars /\ RoundTripFairness

\* a run opened from a session while the operator also uses the catalog: the
\* choice of an activity and of a client, responses, one finish of a run
\* with trials recorded, and the answers to the two writes
InitReselect ==
    \E draws \in ValidDraws :
        StartIn([TrialOpened(draws) EXCEPT !.hist.finishes = MaxFinishes - 1])

FinishRun == act.activityClient # Null /\ act.currentTrial > 0 /\ FinishActivity

ReselectNext ==
    \/ SelectActivity \/ SelectActivityClient \/ RecordResponse \/ FinishRun
    \/ ProgressResponse \/ AssignmentResponse

ReselectSpec == InitReselect /\ [][ReselectNext]_vars


-----------------------------------------------------------------------------
(* Handoff Mailbox: properties *)

Requests == 1..MaxPublish
\* the requests published while the consumer's catalog was still empty
Early == {r \in Requests : hist.publishedAt[r] = "beforeLoad"}
pending == root.pendingActivity
\* the consumer's catalog is loaded and holds the pending request's activity
Ready == act.alive /\ pending.id # Null /\ pending.activity \in act.activities

\* C1: whatever the interleaving of publish, catalog load, post-load check,
\* delayed checks and watch, a published request starts the engine at most
\* once; a request published before the catalog was loaded that is still in
\* the mailbox once the catalog holds its activity has a post-load check
\* scheduled, and is started exactly once when that check has run.
C1_StartedAtMostOnce ==
    /\ \A r \in Requests : hist.started[r] <= 1
    /\ \A r \in Early :
          \/ hist.started[r] = 1 /\ pending.id # r
          \/ hist.started[r] = 0 /\ pending.id # r
          \/ hist.started[r] = 0 /\ pending.id = r /\ (Ready => tm.postLoad > 0)

\* a request published before the catalog was loaded has started the engine,
\* all four delayed checks have fired too, and no other request was published
C1_EarlyPublishStarted ==
    /\ hist.published = 1 /\ Early = {1}
    /\ hist.started[1] = 1
    /\ tm.retries = RetryCount /\ tm.postLoad = 0
    /\ act.showActivitySession /\ act.sourceSession = 1

\* the engine runs the given request: its activity, client and origin
StartedWith(a, req) ==
    /\ a.showActivitySession
    /\ a.selectedActivity = req.activity
    /\ a.activityClient = req.client
    /\ a.sourceSession = req.session
    /\ a.sourceSessionActivityRecord = req.sessionActivityRecord

\* C3: a pending request leaves the mailbox only by being consumed (the engine
\* is started with its own activity, client and origin) or by being
\* overwritten by a newer publish.
C3_LeavesOnlyConsumedOrOverwritten ==
    [][(pending.id # Null /\ pending'.id # pending.id) =>
          \/ hist'.published > hist.published
          \/ /\ hist'.started[pending.id] = hist.started[pending.id] + 1
             /\ StartedWith(act', pending)]_vars

\* checkPendingActivity applied to the current state took the pending request
Consumed(w) ==
    /\ w.root.pendingActivity = NoRequest
    /\ StartedWith(w.act, pending)
    /\ w.hist.started[pending.id] = hist.started[pending.id] + 1

\* C4 as stated: checkPendingActivity takes the request and empties the
\* mailbox iff the catalog is loaded and non-empty and a request is present;
\* otherwise it changes nothing.
C4_ConsumesIffReady ==
    \A draws \in ValidDraws :
        LET w == checkPendingActivity(World, draws) IN
        IF pending.id # Null /\ act.activities # {}
        THEN Consumed(w)
        ELSE w = World

\* C4 amended: checkPendingActivity takes the request and empties the mailbox
\* iff the catalog is non-empty, a request is present, the request's activity
\* id is found in the catalog and the request carries a client; otherwise it
\* changes neither the mailbox nor the engine.
C4_ConsumesIffReadyAndListed ==
    \A draws \in ValidDraws :
        LET w == checkPendingActivity(World, draws) IN
        IF /\ pending.id # Null /\ act.activities # {}
           /\ pending.activity \in act.activities /\ pending.client # Null
        THEN Consumed(w)
        ELSE w = World

\* every scheduled check has run on a loaded catalog that lacks the pending
\* request's activity, and the request is still in the mailbox
C4_UnlistedRequestKept ==
    /\ pending.id # Null /\ act.activities # {}
    /\ pending.activity \notin act.activities
    /\ tm.retries = RetryCount /\ tm.postLoad = 0 /\ net.activities = EmptyBag
    /\ hist.started[pending.id] = 0

\* C5: the mailbox is one slot and publish overwrites it unconditionally: a
\* publish leaves its own request in the slot (or already consumed by the
\* watch in the same step), a request it displaced is not started by it, and
\* only the request in the slot is ever started, so a displaced request is
\* never delivered.
C5_PublishOverwrites ==
    [][/\ hist'.published > hist.published =>
            /\ \/ pending'.id = hist'.published
               \/ pending'.id = Null /\ hist'.started[hist'.published] = 1
            /\ pending.id # Null =>
                   hist'.started[pending.id] = hist.started[pending.id]
       /\ \A r \in Requests :
            hist'.started[r] > hist.started[r] =>
                \/ pending.id = r
                \/ hist.published < r /\ hist'.published = r]_vars

\* two publishes with no consumption in between: the slot holds the second
\* request, the first was not delivered
C5_SecondReplacedFirst ==
    /\ hist.published = 2 /\ pending.id = 2
    /\ hist.started[1] = 0 /\ hist.started[2] = 0
    /\ hist.events = 0 /\ tm.event = EmptyBag

-----------------------------------------------------------------------------
(* Session Lifecycle Manager: properties *)

\* every session object the view holds or a pending callback refers to
SessionObjects == {<<g, sid>> : g \in 1..Len(ses.objs), sid \in SessionIds}

AutoRequest(g, sid) ==
    StatusRequest("auto", sid, g, "completed", Undefined, Undefined, TRUE)

\* the session is in progress, has assignments, and each was attempted
ShouldComplete(session) ==
    /\ session.status = "in_progress"
    /\ DOMAIN session.assignedActivities # {}
    /\ \A aid \in DOMAIN session.assignedActivities :
          session.assignedActivities[aid] > 0

\* C6: the auto-completion test says "complete" iff the session is InProgress,
\* its assignment list is non-empty and every assignment has
\* trials_attempted > 0; checkSessionAutoComplete and checkSessionStatuses
\* issue the status update exactly then, and otherwise change nothing.
C6_AutoCompleteIff ==
    /\ \A o \in SessionObjects :
          LET session == ses.objs[o[1]][o[2]]
              w == checkSessionAutoComplete(World, o[1], o[2])
          IN  /\ shouldAutoComplete(session) <=> ShouldComplete(session)
              /\ IF ShouldComplete(session)
                 THEN w = Send(World, AutoRequest(o[1], o[2]))
                 ELSE w = World
    /\ HasSessions(World) =>
          checkSessionStatuses(World) =
             IF ShouldComplete(CurrentSessions(World)[1])
             THEN Send(World, AutoRequest(Len(ses.objs), 1))
             ELSE World

\* a loaded in-progress session with every assignment attempted, for which the
\* evaluation has issued the status update
C6_CompletionRequested ==
    /\ HasSessions(World)
    /\ ShouldComplete(CurrentSessions(World)[1])
    /\ AutoRequest(Len(ses.objs), 1) \in BagToSet(net.status)

\* C8: evaluating a session whose status is already Completed, once or
\* repeatedly, issues no status update, shows no notification and changes
\* nothing.
C8_CompletedIsFixpoint ==
    /\ \A o \in SessionObjects :
          ses.objs[o[1]][o[2]].status = "completed" =>
              LET w == checkSessionAutoComplete(World, o[1], o[2]) IN
              w = World /\ checkSessionAutoComplete(w, o[1], o[2]) = World
    /\ (HasSessions(World) /\ CurrentSessions(World)[1].status = "completed") =>
          /\ checkSessionStatuses(World) = World
          /\ checkSessionStatuses(checkSessionStatuses(World)) = World

\* a session the view itself completed (every assignment attempted), still
\* under the recurring evaluation
C8_CompletedUnderTimer ==
    /\ HasSessions(World) /\ ses.statusCheckInterval
    /\ CurrentSessions(World)[1].status = "completed"
    /\ \A aid \in DOMAIN CurrentSessions(World)[1].assignedActivities :
          CurrentSessions(World)[1].assignedActivities[aid] > 0
    /\ CurrentSessions(World)[1].assignedDefined
    /\ hist.completedToasts = 1 /\ net.status = EmptyBag

\* the store holds the session in progress with every assignment attempted
StoreAllAttempted(sid) ==
    /\ store.sessions[sid].status = "in_progress"
    /\ AssignmentsOf(sid) # {}
    /\ \A aid \in AssignmentsOf(sid) : store.assignments[aid].trials_attempted > 0

\* C7: once the store holds an in-progress session with every assignment
\* attempted, the last one written by a trial run in the Activities view, the
\* recurring evaluation of the live sessions view eventually completes the
\* session (unless the view is destroyed or an assignment's count is reset
\* first).
C7_EventuallyCompleted ==
    \A sid \in SessionIds :
        (StoreAllAttempted(sid) /\ ses.alive /\ ~ses.destroyed) ~>
            \/ store.sessions[sid].status = "completed"
            \/ ses.destroyed
            \/ \E aid \in AssignmentsOf(sid) :
                  store.assignments[aid].trials_attempted <= 0

\* the session the edit form is open for
Editing == ses.objs[ses.editingSession.gen][ses.editingSession.sid]

\* the start the form shows: the date typed in, else the session's own
FormStart ==
    IF ses.sessionForm.session_date # Null THEN ses.sessionForm.session_date
    ELSE Editing.session_date

\* C9: a request made at instant t to change a session with scheduled start S
\* and duration D to InProgress is rejected iff t < S or t > S + D; S, D are
\* the start and duration shown in the edit form, which are the session's
\* own when the operator changed only the status.  A rejected request sends
\* nothing and raises the error; an accepted one is sent.
C9_RejectedIffOutsideWindow ==
    (ses.showSessionModal /\ ses.editingSession # NoSession
        /\ ses.sessionForm.status = "in_progress" /\ Editing.status # "in_progress") =>
    \A t \in Instants :
        LET w == saveSession(World, t)
            S == FormStart
            D == ses.sessionForm.duration_minutes * TicksPerMinute
            untouched == /\ ses.sessionForm.session_date = Editing.session_date
                         /\ ses.sessionForm.duration_minutes = Editing.duration_minutes
        IN  /\ IF t < S \/ t > S + D
               THEN w = Toast(World, "cannotStart")
               ELSE /\ w.hist.toasts = hist.toasts
                    /\ \E req \in BagToSet(w.net.status) :
                          /\ req.status = "in_progress" /\ req.op = "save"
                          /\ w.net.status = net.status (+) SetToBag({req})
            /\ untouched =>
                  /\ S = Editing.session_date
                  /\ D = Editing.duration_minutes * TicksPerMinute

\* a save to InProgress at an instant outside the window was
\* rejected: the error is shown, the form is still open, nothing was sent
C9_StartOutsideWindowRejected ==
    /\ "cannotStart" \in hist.toasts
    /\ ses.showSessionModal /\ ses.sessionForm.status = "in_progress"
    /\ ses.sessionForm.session_date = Editing.session_date
    /\ ses.sessionForm.duration_minutes = Editing.duration_minutes
    /\ net.status = EmptyBag /\ store.sessions[1].status = "scheduled"

\* C10: no operation of the sessions view issues a request that moves a
\* session to InProgress at an instant outside the session's window.
C10_StartOnlyInWindow ==
    \A req \in BagToSet(net.status) :
        (req.status = "in_progress" /\ req.op \in {"save", "change", "start"}
            /\ store.sessions[req.sid].status # "in_progress") => req.inWindow

\* C11: a step in which the time-window check rejects a start surfaces the
\* error and nothing else: no request is sent, the stored session and the
\* view's session objects keep status, start and duration, the form stays as
\* it was, and no timer or request is left behind that could retry it.
C11_RejectionChangesNothing ==
    []["cannotStart" \in hist'.toasts =>
          /\ net' = net /\ tm' = tm /\ store' = store
          /\ ses' = ses /\ root' = root /\ act' = act]_vars

\* the operator moved the start in the form and asked for in_progress outside
\* the new window: rejected, the stored session is as scheduled, nothing is
\* in flight
C11_RejectedStartLeftSession ==
    /\ "cannotStart" \in hist.toasts
    /\ ses.showSessionModal /\ ses.sessionForm.status = "in_progress"
    /\ ses.sessionForm.session_date # Editing.session_date
    /\ ses.sessionForm.session_date # Null
    /\ store.sessions[1] = InitStore("scheduled", 0, 0).sessions[1]
    /\ Editing.status = "scheduled"
    /\ net.status = EmptyBag /\ net.sessions = 0

\* C12: once the sessions view is destroyed, no recurring status-check timer
\* is active, whatever loads were still in flight.
C12_NoTimerAfterDestroy ==
    ses.destroyed => ~ses.statusCheckInterval

\* a run has been started (a client was chosen or a handoff consumed) and is
\* on screen
Started == act.showActivitySession /\ act.activityClient # Null

\* C13: the count of recorded trials stays between 0 and totalTrials (and the
\* correct ones within it, the index within the list); recordResponse on a
\* run whose count has reached totalTrials changes neither the counts nor the
\* current prompt.
C13_TrialsWithinTotal ==
    /\ 0 <= act.currentTrial /\ act.currentTrial <= act.totalTrials
    /\ 0 <= act.trialsCorrect /\ act.trialsCorrect <= act.currentTrial
    /\ act.currentWordIndex <= Len(act.activityWords)
    /\ act.currentTrial >= act.totalTrials =>
          \A isCorrect \in BOOLEAN :
             LET after == recordResponse(act, isCorrect) IN
             /\ after.currentTrial = act.currentTrial
             /\ after.trialsCorrect = act.trialsCorrect
             /\ after.currentWord = act.currentWord
             /\ after = act

\* a started run of MaxTrials trials on a longer list, all trials recorded
C13_RunComplete ==
    /\ Started /\ Len(act.activityWords) > MaxTrials
    /\ act.currentTrial = MaxTrials /\ act.totalTrials = MaxTrials
    /\ act.trialsCorrect = 3

\* the counts after recordResponse on a started run that is not complete
Counted(after, isCorrect) ==
    /\ after.currentTrial = act.currentTrial + 1
    /\ after.trialsCorrect = act.trialsCorrect + (IF isCorrect THEN 1 ELSE 0)
    /\ (after.currentWord = Null) <=> (after.currentTrial = after.totalTrials)

\* C14 as stated: recordResponse on a started run with trials left adds one to
\* the trials, one to the correct ones iff isCorrect, advances the index by
\* one, and the run is complete (no prompt) afterwards exactly when the
\* trials have reached totalTrials.
C14_EveryTrialAdvancesIndex ==
    (Started /\ act.currentTrial < act.totalTrials) =>
        \A isCorrect \in BOOLEAN :
           LET after == recordResponse(act, isCorrect) IN
           /\ Counted(after, isCorrect)
           /\ after.currentWordIndex = act.currentWordIndex + 1

\* C14 as the code has it: the index advances by one with every trial but the
\* one that completes the run; that one leaves the index where it is (at
\* totalTrials, the number of prompts shown) and clears the prompt.
C14_TrialRecorded ==
    (Started /\ act.currentTrial < act.totalTrials) =>
        \A isCorrect \in BOOLEAN :
           LET after == recordResponse(act, isCorrect) IN
           /\ Counted(after, isCorrect)
           /\ IF after.currentTrial < after.totalTrials
              THEN /\ after.currentWordIndex = act.currentWordIndex + 1
                   /\ after.currentWord = act.activityWords[after.currentWordIndex]
              ELSE /\ after.currentWordIndex = act.currentWordIndex
                   /\ after.currentWordIndex = after.totalTrials

\* the last trial of a run of MaxTrials has been recorded, 7 of them correct
C14_LastTrialRecorded ==
    /\ Started /\ act.totalTrials = MaxTrials /\ act.currentTrial = MaxTrials
    /\ act.trialsCorrect = 7 /\ act.currentWordIndex = MaxTrials
    /\ act.currentWord = Null

\* C15: recordResponse on a complete run returns a value that differs from
\* the value returned by a call that recorded a trial.
C15_CompleteSignalled ==
    (Started /\ act.totalTrials > 0 /\ act.currentTrial >= act.totalTrials) =>
        \A isCorrect \in BOOLEAN, recorded \in BOOLEAN :
           recordResponseReturn(act, isCorrect)
              # recordResponseReturn(resetActivityState(act), recorded)

\* C16: a started run on a list of N items has totalTrials = min(N, MaxTrials);
\* on an empty list it has totalTrials 0, no current prompt, and
\* recordResponse changes nothing. The same holds of the state in which any
\* start from the current state ends.
C16_TotalIsMinOfItemsAndCap ==
    LET Defined(a) ==
           /\ a.totalTrials = Min(Len(a.activityWords), MaxTrials)
           /\ Len(a.activityWords) >= 1 =>
                 (a.currentTrial = 0 => a.currentWord \in
                     {a.activityWords[i] : i \in 1..Len(a.activityWords)})
           /\ Len(a.activityWords) = 0 =>
                 /\ a.totalTrials = 0 /\ a.currentWord = Null
                 /\ a.currentTrial = 0 /\ a.trialsCorrect = 0
                 /\ \A isCorrect \in BOOLEAN : recordResponse(a, isCorrect) = a
    IN  /\ Started => Defined(act)
        /\ act.showActivitySession =>
              \A client \in ClientIds, draws \in DrawsFor(act.activityWords) :
                 Defined(selectActivityClient(act, client, draws))

\* a run started on a list longer than the cap
C16_LongListCapped ==
    /\ Started /\ Len(act.activityWords) > MaxTrials
    /\ act.totalTrials = MaxTrials /\ act.currentTrial = 0
    /\ act.currentWord # Null

\* C17: finish on a started run with n >= 1 trials, c of them correct, posts
\* one result with trials n, correct c and accuracy c * 100 / n (100 for k of
\* k, 70 for 7 of 10); with no trial it computes no accuracy and posts
\* nothing, it only closes the run. Every result posted or stored is of that
\* form.
C17_ResultOfFinish ==
    LET w == finishActivity(World)
        \* x is the double for c * 100 / n: that very number where it is a
        \* double (every whole percentage is), and otherwise one of the two
        \* doubles next to it, below or above
        IsPercentage(x, c, n) ==
            IF c = 0 THEN x = NumberZero
            ELSE LET q == expansion(100 * c, n) IN
                 /\ x \in {[sig |-> q.sig, exp |-> q.exp]}
                          \cup (IF q.rest = "none" THEN {}
                                ELSE {nextUp(q.sig, q.exp)})
                 /\ c = n => x = numberDivide(100, 1)
        \* the request finishActivity posts for the run on screen
        ResultOf(a) ==
            [client |-> a.activityClient, activity |-> a.selectedActivity,
             trials |-> a.currentTrial, correct |-> a.trialsCorrect,
             accuracy |-> accuracyOf(a.trialsCorrect, a.currentTrial),
             session |-> a.sourceSession,
             sessionActivityRecord |-> a.sourceSessionActivityRecord]
        Sound(r) == /\ r.trials >= 1 /\ r.correct <= r.trials
                    /\ IsPercentage(r.accuracy, r.correct, r.trials)
    IN  /\ (Started /\ act.currentTrial >= 1) =>
              /\ w.net.progress = net.progress (+) SetToBag({ResultOf(act)})
              /\ Sound(ResultOf(act))
        /\ (act.showActivitySession /\ act.currentTrial = 0) =>
              /\ w.net = net /\ w.store = store
              /\ w.act = closeActivitySession(act)
        /\ \A r \in BagToSet(net.progress) : Sound(r)
        /\ \A i \in 1..Len(store.progress) : Sound(store.progress[i])

\* a run of 10 trials with 7 correct was finished and its result stored with
\* an accuracy of 70
C17_SevenOfTenStored ==
    \E i \in 1..Len(store.progress) :
        /\ store.progress[i].trials = 10 /\ store.progress[i].correct = 7
        /\ store.progress[i].accuracy = numberDivide(70, 1)

\* C18: once finish was invoked on a run with at least one trial, the run
\* produces one progress record and no more: of the one run of the round
\* trip at most one record is ever requested or stored, and from the finish
\* on the engine's counts no longer change while the run is on screen.
C18_FinishIsTerminal ==
    /\ BagCardinality(net.progress) + Len(store.progress) <= 1
    /\ \A req \in BagToSet(net.progress) :
          act.showActivitySession =>
             /\ act.currentTrial = req.trials
             /\ act.trialsCorrect = req.correct

\* C19: whenever finish is invoked on a run that has an originating session,
\* the return token is eventually set to that session's id: the k-th such
\* finish is followed by the k-th setting of the token to it.
C19_FinishEventuallyReturns ==
    LET CountFor(seq, sid) == Cardinality({i \in DOMAIN seq : seq[i] = sid}) IN
    \A sid \in SessionIds, k \in 1..MaxFinishes :
        (CountFor(hist.finishedFor, sid) >= k) ~> (CountFor(hist.returns, sid) >= k)

\* C20: the token is set only by a publication; a live sessions view
\* observes it in the same step: it requests the session list exactly once
\* and leaves the token empty, so that no later step finds it; a step
\* without publication (no return timer fires) requests no list on behalf of
\* the token and leaves the token as it is.
C20_TokenReadOnce ==
    [][LET Publishes == BagCardinality(tm'.ret) < BagCardinality(tm.ret) IN
       /\ (Publishes /\ ses.alive /\ ~ses.destroyed) =>
            /\ root'.returnToSessionId = Null
            /\ net'.sessions = net.sessions + 1
            /\ "returned" \in hist'.toasts
       /\ (Publishes /\ ~(ses.alive /\ ~ses.destroyed)) =>
            /\ root'.returnToSessionId \in SessionIds
            /\ net'.sessions = net.sessions
       /\ ~Publishes =>
            /\ root'.returnToSessionId = root.returnToSessionId
            /\ net'.sessions <= net.sessions
       /\ (ses'.alive /\ ~ses'.destroyed) => root'.returnToSessionId = Null
      ]_vars

\* a token was just published and read by the live view: the list is
\* requested once and the token is empty again
C20_TokenConsumed ==
    /\ Len(hist.returns) = 1 /\ "returned" \in hist.toasts
    /\ ses.alive /\ ~ses.destroyed
    /\ root.returnToSessionId = Null /\ net.sessions = 1

\* C21: the report of a finished run is the 'saved' variant only if both of
\* its writes succeeded: of the runs that sent a progress record, those
\* reported as saved and those whose assignment write failed are disjoint.
C21_SavedOnlyIfBothWritten ==
    hist.savedReports + hist.assignFailures <= hist.finishes

\* C22: a consumption attempt (a delayed check or a post-load check firing)
\* for a request whose activity id is not in the loaded catalog, or whose
\* client is missing, starts nothing and leaves the request in the mailbox;
\* an attempt made when the catalog holds the id consumes that same request.
C22_UnlistedRequestWaits ==
    [][LET attempt == tm'.postLoad < tm.postLoad \/ tm'.retries > tm.retries IN
       (attempt /\ pending.id # Null /\ act.activities # {}) =>
           IF pending.activity \in act.activities /\ pending.client # Null
           THEN /\ pending' = NoRequest
                /\ StartedWith(act', pending)
                /\ hist'.started = [hist.started EXCEPT ![pending.id] = @ + 1]
           ELSE /\ pending' = pending
                /\ act' = act
                /\ hist'.started = hist.started]_vars

\* the only request was published before the first catalog arrived; the
\* post-load check of that catalog ran and left it, the catalog lacking its
\* activity; a second catalog holds the activity, and its check is scheduled
C22_RefusedRequestNowListed ==
    /\ hist.published = 1 /\ Early = {1} /\ pending.id = 1
    /\ hist.catalogLoads = 2 /\ net.activities = EmptyBag /\ tm.postLoad = 1
    /\ pending.activity \in act.activities
    /\ hist.started[1] = 0

\* C23: the working sequence is a permutation of the activity's item list
\* (the items 1..n, each once); start and reset keep it one whatever the
\* draws; and for a list of up to MaxShuffled items the shuffle, taken over
\* all the draws Math.random can give, yields every rearrangement of the list.
C23_ShuffleIsPermutation ==
    LET words == act.activityWords
        n == Len(words)
        Items(s) == {s[i] : i \in 1..Len(s)}
        AllDraws == {d \in [1..(n - 1) -> 0..(n - 1)] : \A i \in 1..(n - 1) : d[i] <= i}
        OneToOne == {f \in [1..n -> 1..n] : \A i, j \in 1..n : f[i] = f[j] => i = j}
    IN  /\ Items(words) = 1..n
        /\ \A draws \in DrawsFor(words) :
              \A a \in {resetActivity(act, draws), selectActivityClient(act, 1, draws)} :
                  Len(a.activityWords) = n /\ Items(a.activityWords) = 1..n
        /\ n <= MaxShuffled =>
              {shuffleWords(act, d).activityWords : d \in AllDraws}
                 = {[i \in 1..n |-> words[f[i]]] : f \in OneToOne}

\* a started run of three items in an order other than the list's
C23_ThreeItemsShuffled ==
    /\ Started /\ act.activityWords = <<2, 3, 1>> /\ act.currentWord = 2

\* C24: reset of a started run, whatever its origin, zeroes trialsCompleted
\* and trialsCorrect, shuffles the sequence again and presents its first item
\* (nothing when the list is empty), and leaves the activity, the client,
\* totalTrials and the originating session and assignment as they were.
C24_ResetKeepsRun ==
    Started =>
      \A draws \in DrawsFor(act.activityWords) :
      \A session \in SessionIds \cup {Null}, record \in AssignmentIds \cup {Null} :
        LET before == [act EXCEPT !.sourceSession = session,
                                  !.sourceSessionActivityRecord = record]
            after == resetActivity(before, draws)
            n == Len(act.activityWords)
        IN  /\ after.currentTrial = 0 /\ after.trialsCorrect = 0
            /\ after.activityWords = shuffleLoop(act.activityWords, n - 1, draws)
            /\ IF n > 0
               THEN after.currentWord = after.activityWords[1] /\ after.currentWordIndex = 1
               ELSE after.currentWord = Null /\ after.currentWordIndex = 0
            /\ after.selectedActivity = before.selectedActivity
            /\ after.activityClient = before.activityClient
            /\ after.totalTrials = before.totalTrials
            /\ after.sourceSession = session
            /\ after.sourceSessionActivityRecord = record
            /\ after.showActivitySession

\* a run of twelve items, capped at ten trials, with trials recorded and
\* some of them correct: reset has counters to zero and a total to keep
C24_RunWithTrials ==
    /\ Started /\ Len(act.activityWords) = MaxItems
    /\ act.currentTrial = 3 /\ act.trialsCorrect = 2 /\ act.currentWordIndex = 4

\* C25: on a complete run (trialsCompleted = totalTrials) recordResponse
\* changes nothing of the engine and the call of finish nothing either (it
\* closes the run at once when no trial was given); a step that changes
\* the counters or the terminal prompt is a reset or a new start for a client
\* (counters zero, same activity, first prompt shown, running again) or ends
\* the run (closed, or its client unbound by the choice of an activity).
C25_CompleteLeftOnlyByReset ==
    [][(Started /\ act.currentTrial = act.totalTrials) =>
         /\ \A isCorrect \in BOOLEAN : recordResponse(act, isCorrect) = act
         /\ finishActivity(World).act =
               IF act.currentTrial = 0 THEN closeActivitySession(act) ELSE act
         /\ <<act.currentTrial, act.trialsCorrect, act.currentWord>>'
               # <<act.currentTrial, act.trialsCorrect, act.currentWord>> =>
               /\ act'.currentTrial = 0 /\ act'.trialsCorrect = 0
               /\ \/ /\ act'.showActivitySession
                     /\ act'.activityClient # Null
                     /\ act'.selectedActivity = act.selectedActivity
                     /\ act'.currentTrial < act'.totalTrials
                     /\ act'.currentWord = act'.activityWords[1]
                  \/ /\ act'.activityClient = Null
                     /\ act'.currentWord = Null]_vars

\* a run of three items is complete with one response correct
C25_ShortRunComplete ==
    /\ Started /\ Len(act.activityWords) = 3
    /\ act.currentTrial = 3 /\ act.totalTrials = 3 /\ act.trialsCorrect = 1
    /\ act.currentWord = Null

\* C26: while a run is running (client bound, trialsCompleted < totalTrials)
\* the current prompt is the item of the shuffled sequence at position
\* trialsCompleted, counted from 0; once trialsCompleted = totalTrials the
\* prompt is the terminal value; the index never exceeds the sequence length.
C26_PromptFollowsTrials ==
    /\ (Started /\ act.currentTrial < act.totalTrials) =>
           act.currentWord = act.activityWords[act.currentTrial + 1]
    /\ (Started /\ act.currentTrial = act.totalTrials) => act.currentWord = Null
    /\ act.currentWordIndex \in 0..Len(act.activityWords)

\* a shuffled run of three items after its first response: the second item
\* of the shuffled order is shown
C26_SecondPromptShown ==
    /\ Started /\ act.activityWords = <<2, 3, 1>>
    /\ act.currentTrial = 1 /\ act.currentWord = 3

\* C27: a manual change to scheduled, completed or cancelled is submitted to
\* the session store at any instant and whatever the session's status and
\* assignments: changeSessionStatus and completeSession on any session of the
\* view, and saveSession of an edit form whose status is one of the three,
\* each send exactly one update carrying that status and raise no error.
C27_ManualChangeAlwaysSent ==
    LET Manual == Statuses \ {"in_progress"}
        Sent(w, op, sid, status) ==
            /\ w.hist.toasts = hist.toasts
            /\ \E req \in BagToSet(w.net.status) :
                  /\ req.op = op /\ req.sid = sid /\ req.status = status
                  /\ w.net.status = net.status (+) SetToBag({req})
    IN  /\ SessionsVisible =>
              \A sid \in SessionIds, now \in Instants :
                 /\ \A newStatus \in Manual :
                       Sent(changeSessionStatus(World, sid, newStatus, now),
                            "change", sid, newStatus)
                 /\ Sent(completeSession(World, sid, now), "complete", sid, "completed")
        /\ (SessionsVisible /\ ses.showSessionModal /\ ses.editingSession # NoSession
               /\ ses.sessionForm.status \in Manual) =>
              \A now \in Instants :
                 Sent(saveSession(World, now), "save", ses.editingSession.sid,
                      ses.sessionForm.status)

\* the form edits a session that is completed, with assignments attempted or
\* not, and asks for cancelled
C27_CompletedSessionEdited ==
    /\ SessionsVisible /\ ses.showSessionModal /\ ses.editingSession # NoSession
    /\ Editing.status = "completed" /\ store.sessions[1].status = "completed"
    /\ ses.sessionForm.status = "cancelled"

\* C28 as stated: at every program point of a consumption at which the engine
\* has been started for the request, the mailbox is already empty.
C28_ClearedBeforeStart ==
    \A draws \in ValidDraws :
        LET points == checkPendingActivityPoints(World, draws) IN
        \A i \in DOMAIN points :
            points[i].hist.started # hist.started =>
                points[i].root.pendingActivity = NoRequest

\* C28 amended: a successful consumption starts the engine and then empties
\* the mailbox, as the last two statements of one handler: the handler's
\* result is its last program point (plus the notification), with the engine
\* started and the mailbox empty; so in no state that a callback can observe
\* is a request in the mailbox that the engine was started for.
C28_NeverStartedWhilePending ==
    /\ pending.id # Null => hist.started[pending.id] = 0
    /\ \A draws \in ValidDraws :
          LET points == checkPendingActivityPoints(World, draws)
              last == points[Len(points)]
          IN  /\ checkPendingActivity(World, draws) \in {last, Toast(last, "activityStarted")}
              /\ Len(points) > 1 =>
                    /\ last.root.pendingActivity = NoRequest
                    /\ StartedWith(last.act, pending)
                    /\ checkPendingActivity(last, draws) = last

\* a request was consumed by the watch or a check, the mailbox is empty, the
\* engine runs it, and delayed checks are still to fire
C28_ConsumedWithRetriesLeft ==
    /\ hist.published = 1 /\ hist.started[1] = 1 /\ pending = NoRequest
    /\ act.showActivitySession /\ act.sourceSession = 1 /\ act.currentTrial = 0
    /\ tm.retries = 1

\* C29: a delayed check or a post-load check that fires on an empty mailbox
\* (the request was consumed, nothing newer was published), and the watch
\* listener called in such a state, leave the running trial session as it is:
\* activity, client, origin, shuffled sequence, prompt and both counters (and
\* the mailbox and the start counts with them).
C29_LateCheckLeavesRun ==
    [][(Started /\ pending = NoRequest) =>
         /\ \A draws \in ValidDraws :
               /\ checkPendingActivity(World, draws) = World
               /\ WatchPendingActivity(World, draws).act = act
         /\ (tm'.retries > tm.retries \/ tm'.postLoad < tm.postLoad) =>
               /\ act' = act
               /\ pending' = NoRequest
               /\ hist'.started = hist.started]_vars

\* the run opened from the session has one correct response recorded; all
\* four delayed checks have fired and so has the post-load check of a
\* filtered catalog, which no longer lists the run's activity
C29_ChecksFiredOnRun ==
    /\ Started /\ pending = NoRequest /\ act.sourceSession = 1
    /\ act.currentTrial = 1 /\ act.trialsCorrect = 1
    /\ tm.retries = RetryCount /\ tm.postLoad = 0
    /\ hist.catalogLoads = MaxCatalogLoads /\ net.activities = EmptyBag
    /\ act.selectedActivity \notin act.activities

\* C30: whatever was done between finish and the save response, the
\* assignment update sent for a run carries the counts of the progress record
\* saved for that run (the counters as they were when finish was invoked).
C30_UpdateMatchesRecord ==
    \A upd \in BagToSet(net.assign) :
        \E i \in DOMAIN store.progress :
            /\ store.progress[i].trials = upd.trials_attempted
            /\ store.progress[i].correct = upd.trials_correct

\* C31: a run that carries an originating session and assignment has the
\* activity of that assignment and the client of that session, and so has
\* every result sent for an assignment: an assignment is only ever updated
\* with results of its own activity and client.
C31_OriginKeepsActivityAndClient ==
    LET Own(activity, client, sid, aid) ==
            /\ activity = ActivityOfAssignment(aid)
            /\ client = store.sessions[sid].client_id
    IN  /\ (act.showActivitySession /\ act.sourceSessionActivityRecord # Null) =>
              /\ act.selectedActivity = ActivityOfAssignment(act.sourceSessionActivityRecord)
              /\ act.activityClient \in {Null, store.sessions[act.sourceSession].client_id}
        /\ \A req \in BagToSet(net.progress) :
              (req.session # Null /\ req.sessionActivityRecord # Null) =>
                  Own(req.activity, req.client, req.session, req.sessionActivityRecord)

\* C32: for a session that is eligible for auto-completion at most one
\* 'completed' update is in flight at any time, whatever evaluations ran
\* before the first response, and at most one completion notification is
\* ever shown.
C32_OneCompletionRequest ==
    /\ \A sid \in SessionIds :
          LET Auto == {req \in BagToSet(net.status) :
                          req.op = "auto" /\ req.sid = sid /\ req.status = "completed"}
          IN  /\ Cardinality(Auto) <= 1
              /\ \A req \in Auto : CopiesIn(req, net.status) <= 1
    /\ hist.completedToasts <= 1

\* C33: openActivityFromSession writes the mailbox exactly when the session
\* is InProgress, the assignment record it was given (if any) has no
\* attempted trials and the session's client is among the loaded clients;
\* the request then carries the activity, that client, the session and the
\* record.  Otherwise it only shows a message: mailbox, view, timers,
\* requests, store and both controllers' state are unchanged.
C33_PublishOnlyWhenAllowed ==
    HasSessions(World) =>
      \A sid \in SessionIds, activity \in ActivityIds :
        LET session == CurrentSessions(World)[sid] IN
        \A record \in DOMAIN session.assignedActivities \cup {Null} :
          LET w == openActivityFromSession(World, activity, sid, record)
              allowed == /\ session.status = "in_progress"
                         /\ record # Null => session.assignedActivities[record] <= 0
                         /\ session.client_id \in ses.allClients \cup ses.clients
          IN  IF allowed
              THEN /\ w.root.pendingActivity.activity = activity
                   /\ w.root.pendingActivity.client = session.client_id
                   /\ w.root.pendingActivity.session = sid
                   /\ record # Null => w.root.pendingActivity.sessionActivityRecord = record
                   /\ w.hist.published = hist.published + 1
                   /\ w.hist.toasts = hist.toasts
                   /\ w.root.currentView = root.currentView /\ w.ses = ses
              ELSE \E kind \in {"mustBeInProgress", "alreadyCompleted", "clientNotFound"} :
                       w = Toast(World, kind)

\* the loaded session is in progress, its client is loaded, one of its
\* assignments was attempted and the other was not
C33_OneAssignmentAttempted ==
    /\ HasSessions(World) /\ CurrentSessions(World)[1].status = "in_progress"
    /\ CurrentSessions(World)[1].client_id \in ses.allClients
    /\ CurrentSessions(World)[1].assignedDefined
    /\ CurrentSessions(World)[1].assignedActivities = <<1, 0>>
    /\ root.pendingActivity = NoRequest

\* C34: the step in which a progress write fails sends no assignment update
\* and writes nothing to the store; and as long as no progress write of the
\* run has succeeded, no assignment update is in flight, the run's assignment
\* keeps trials_attempted = 0, and the session stays in progress with no
\* status update requested.
C34_FailedWriteSendsNoUpdate ==
    [][/\ "resultNotSaved" \in hist'.toasts =>
            net'.assign = net.assign /\ store' = store
       /\ hist.savedReports = 0 =>
            /\ net.assign = EmptyBag /\ net.status = EmptyBag
            /\ store.assignments[2].trials_attempted = 0
            /\ store.sessions[1].status = "in_progress"]_vars

\* the progress write of the run opened from session 1 has just failed: the
\* operator is told, the way back to the session is scheduled, the
\* assignment is as it was
C34_ProgressWriteFailed ==
    /\ "resultNotSaved" \in hist.toasts /\ hist.savedReports = 0
    /\ hist.finishes = 1 /\ net.progress = EmptyBag /\ net.assign = EmptyBag
    /\ tm.ret = SetToBag({1})
    /\ store.assignments[2].trials_attempted = 0 /\ store.progress = << >>

C36_NoTrialsWithoutClient ==
    /\ act.currentTrial > 0 => act.activityClient # Null
    /\ act.activityClient = Null =>
          /\ act.trialsCorrect = 0
          /\ \A isCorrect \in BOOLEAN : recordResponse(act, isCorrect) = act

\* C37: a run without an originating session never leads to an assignment
\* update, to a scheduled return or to a written return token, whatever its
\* outcome; and a step that closes a run other than the answer to its
\* progress write (close, or finish with nothing to save) sends nothing,
\* writes nothing to the store and touches neither token nor timers.
C37_OwnRunWritesNoToken ==
    [][/\ net'.assign = EmptyBag /\ tm'.ret = EmptyBag
       /\ root'.returnToSessionId = Null /\ hist'.returns = << >>
       /\ store'.assignments = store.assignments
       /\ (act.showActivitySession /\ ~act'.showActivitySession
             /\ net'.progress = net.progress) =>
            /\ net' = net /\ store' = store /\ root' = root /\ tm' = tm]_vars

\* a run started from the catalog was finished and its result saved; the
\* view is closed, nothing is in flight and no return is scheduled
C37_OwnRunSaved ==
    /\ hist.savedReports = 1 /\ Len(store.progress) = 1
    /\ ~act.showActivitySession /\ hist.finishedFor = <<Null>>
    /\ net.progress = EmptyBag /\ net.assign = EmptyBag /\ tm.ret = EmptyBag
    /\ root.returnToSessionId = Null

\* C38: in every reachable state 0 <= trialsCorrect <= trialsCompleted, and
\* the accuracy finish computes from the counters of a run with trials, like
\* the accuracy of every result posted, is a number from 0 to 100.
C38_AccuracyWithinBounds ==
    LET Hundred == numberDivide(100, 1)
        \* x <= y for doubles: zero first, then exponent, then significand
        Before(s, t) == \E i \in 1..SigBits :
                            /\ s[i] < t[i]
                            /\ \A j \in 1..(i - 1) : s[j] = t[j]
        AtMost(x, y) == \/ x = NumberZero \/ x = y
                        \/ x.exp < y.exp
                        \/ x.exp = y.exp /\ Before(x.sig, y.sig)
        Positive(x) == x.sig[1] = 1
        InRange(x) == (x = NumberZero \/ Positive(x)) /\ AtMost(x, Hundred)
    IN  /\ 0 <= act.trialsCorrect /\ act.trialsCorrect <= act.currentTrial
        /\ act.currentTrial > 0 =>
              InRange(accuracyOf(act.trialsCorrect, act.currentTrial))
        /\ \A req \in BagToSet(net.progress) : InRange(req.accuracy)
        /\ \A i \in DOMAIN store.progress : InRange(store.progress[i].accuracy)

\* a result with one trial of three correct (33.33... per cent) is posted
C38_OneOfThreePosted ==
    \E req \in BagToSet(net.progress) : req.trials = 3 /\ req.correct = 1

\* C39: when the 'completed' update sent by auto-completion fails, the
\* session keeps its local status, the server keeps its own and no completion
\* notification is shown; when it succeeds the session becomes completed and
\* the notification is shown; and no step turns the status of a loaded
\* session object to completed other than a successful response to such an
\* update.
C39_CompletedOnlyOnSuccess ==
    [][/\ \A req \in BagToSet(net.status) :
              req.op = "auto" /\ req.status = "completed" =>
                  LET failed == DigestQuiet(StatusResponded(
                                    Answered(Begin(World), FALSE), req, FALSE))
                      done == DigestQuiet(StatusResponded(
                                    Answered(Begin(World), TRUE), req, TRUE))
                  IN  /\ failed.ses = ses
                      /\ failed.store = store
                      /\ failed.hist.completedToasts = hist.completedToasts
                      /\ "sessionCompleted" \notin failed.hist.toasts
                      /\ done.ses.objs[req.gen][req.sid].status = "completed"
                      /\ done.hist.completedToasts = Bump(hist.completedToasts)
                      /\ "sessionCompleted" \in done.hist.toasts
       /\ \A gen \in DOMAIN ses.objs, sid \in SessionIds :
              \* the step keeps the loaded objects: no reload, none dropped
              /\ Len(ses'.objs) = Len(ses.objs) /\ net'.sessions >= net.sessions
              /\ ses.objs[gen][sid].status # "completed"
              /\ ses'.objs[gen][sid].status = "completed"
              => /\ \E req \in BagToSet(net.status) :
                        /\ req.op = "auto" /\ req.gen = gen /\ req.sid = sid
                        /\ net'.status = net.status (-) SetToBag({req})
                 /\ hist'.failures = hist.failures
                 /\ store'.sessions[sid].status = "completed"
                 /\ "sessionCompleted" \in hist'.toasts
      ]_vars

\* the 'completed' update of a session in progress is in flight and may fail
C39_CompletionMayFail ==
    /\ hist.failures < MaxFailures
    /\ \E req \in BagToSet(net.status) :
          /\ req.op = "auto" /\ req.status = "completed"
          /\ ses.objs[req.gen][req.sid].status = "in_progress"

\* C40: a save that sets InProgress on a session that is not in progress is
\* accepted exactly when the instant of the save lies in the window made of
\* the start and the duration which that same save stores - the values of the
\* edit form - whatever window the session had before the edit.
C40_WindowOfTheSave ==
    (ses.showSessionModal /\ ses.editingSession # NoSession
        /\ ses.sessionForm.status = "in_progress" /\ Editing.status # "in_progress") =>
    \A t \in Instants :
        LET w == saveSession(World, t)
            sent == {req \in BagToSet(w.net.status) :
                        w.net.status = net.status (+) SetToBag({req})}
            \* what the save writes when its request is applied
            Stored(req) == StoreApply(store, req).sessions[req.sid]
            newStart == IF ses.sessionForm.session_date # Null
                        THEN convertLocalDateTimeToISO(ses.sessionForm.session_date)
                        ELSE ses.originalSessionDate
            newDuration == ses.sessionForm.duration_minutes
        IN  /\ \A req \in sent :
                  /\ req.op = "save" /\ req.status = "in_progress"
                  /\ Stored(req).session_date = newStart
                  /\ Stored(req).duration_minutes = newDuration
                  /\ Stored(req).status = "in_progress"
                  /\ InWindow(t, Stored(req).session_date, Stored(req).duration_minutes)
            /\ IF InWindow(t, newStart, newDuration)
               THEN sent # {} /\ w.hist.toasts = hist.toasts
               ELSE w = Toast(World, "cannotStart")

\* the form of a scheduled session sets InProgress with a later start and a
\* shorter duration than the session has: the two windows differ
C40_StartAndDurationChanged ==
    /\ ses.showSessionModal /\ ses.editingSession # NoSession
    /\ ses.sessionForm.status = "in_progress" /\ Editing.status = "scheduled"
    /\ ses.sessionForm.session_date # Null
    /\ ses.sessionForm.session_date > Editing.session_date
    /\ ses.sessionForm.duration_minutes < Editing.duration_minutes
    /\ \E t \in Instants :
          InWindow(t, Editing.session_date, Editing.duration_minutes)
              # InWindow(t, ses.sessionForm.session_date, ses.sessionForm.duration_minutes)

====
